---- MODULE Spec2Model ----
(***************************************************************************)
(* HVAC loop discovery and topology reconstruction of the EnergyPlus MCP   *)
(* server (measures/hvac.py, utils/hvac_utils.py).                         *)
(*                                                                         *)
(* The epJSON model `ep` maps an object-type name to a collection; a       *)
(* collection is an insertion-ordered dict, written here as a sequence of  *)
(* [name, attrs] entries with distinct names; an attribute map is a        *)
(* function from field-name strings to values.                             *)
(***************************************************************************)
EXTENDS Integers, Sequences, FiniteSets, TLC

VARIABLES
    ep,         \* the epJSON data dictionary handed to every call
    obj_data,   \* the attribute map handed to the numbered-field scans
    op,         \* the operation that ran last ("init" before any call)
    arg,        \* its argument (a loop, list or node name)
    result,     \* what it returned, or the exception that left it
    earlier     \* history: an earlier topology query the caller remembers

vars == <<ep, obj_data, op, arg, result, earlier>>

(***************************************************************************)
(* Python values.                                                          *)
(***************************************************************************)

\* A call either returns a value or leaves by an exception.
Ret(v) == [raised |-> FALSE, val |-> v]
Raise(e) == [raised |-> TRUE, exc |-> e]

\* An Optional value: None, or a value.
PyNone == [none |-> TRUE]
Some(v) == [none |-> FALSE, v |-> v]

\* dict.get(k, default) and `k in dict` on an attribute map.
Has(d, k) == k \in DOMAIN d
Get(d, k, default) == IF k \in DOMAIN d THEN d[k] ELSE default

\* Truthiness of a str.
Truthy(s) == s # ""

\* dict.get(k) followed by a truthiness test: absent (None) and "" are falsy.
Populated(d, k) == Has(d, k) /\ Truthy(d[k])

\* d.get(k1) or d.get(k2): the first truthy value, None when the second is absent.
GetOr(d, k1, k2) ==
    IF Populated(d, k1) THEN Some(d[k1])
    ELSE IF Has(d, k2) THEN Some(d[k2]) ELSE PyNone

\* `not x` for an Optional str.
Falsy(o) == o.none \/ ~Truthy(o.v)

\* ep.get(type, {}): the collection of a type, empty when the type is absent.
Coll(e, t) == IF t \in DOMAIN e THEN e[t] ELSE <<>>
InColl(c, n) == \E i \in 1..Len(c) : c[i].name = n
Lookup(c, n) == c[CHOOSE i \in 1..Len(c) : c[i].name = n].attrs

(***************************************************************************)
(* utils/hvac_utils.py: the numbered-field scans.  A field pattern         *)
(* "pre_{}post" is written [pre, post].                                    *)
(***************************************************************************)

max_count == 50

\* pattern.format(i); for i = 1 the code writes pattern.replace("_{}", "_1").
NumberedField(p, i) == p.pre \o "_" \o ToString(i) \o p.post
\* pattern.replace("_{}", ""): the unnumbered alias of index 1.
AltField(p) == p.pre \o p.post

ComponentNamePattern == [pre |-> "component", post |-> "_name"]
ComponentTypePattern == [pre |-> "component", post |-> "_object_type"]
OutletNodePattern == [pre |-> "outlet", post |-> "_node_name"]
InletNodePattern == [pre |-> "inlet", post |-> "_node_name"]

\* A faulty variant of ScanField: the alias is tried at every index.
ScanField_alias_at_every_index(d, p, i) == GetOr(d, NumberedField(p, i), AltField(p))

\* The value the scan reads for index i: numbered field or alias for i = 1,
\* the numbered field alone above.
ScanField(d, p, i) ==
    IF i = 1 THEN GetOr(d, NumberedField(p, 1), AltField(p))
    ELSE IF Has(d, NumberedField(p, i)) THEN Some(d[NumberedField(p, i)]) ELSE PyNone

\* A faulty variant of ComponentsFrom: the scan goes on until a field is
\* absent or empty, with no ceiling on the index (`while True`).
RECURSIVE ComponentsFrom_unbounded(_, _, _, _, _, _)
ComponentsFrom_unbounded(d, np, tp, i, maxc, acc) ==
    LET comp_name == ScanField(d, np, i)
        comp_type == ScanField(d, tp, i)
    IN  IF Falsy(comp_name) \/ Falsy(comp_type) THEN acc
        ELSE ComponentsFrom_unbounded(d, np, tp, i + 1, maxc,
                 Append(acc, [name |-> comp_name.v, type |-> comp_type.v]))

RECURSIVE ComponentsFrom(_, _, _, _, _, _)
ComponentsFrom(d, np, tp, i, maxc, acc) ==
    IF i > maxc THEN acc
    ELSE LET comp_name == ScanField(d, np, i)
             comp_type == ScanField(d, tp, i)
         IN  IF Falsy(comp_name) \/ Falsy(comp_type) THEN acc
             ELSE ComponentsFrom(d, np, tp, i + 1, maxc,
                      Append(acc, [name |-> comp_name.v, type |-> comp_type.v]))

iter_numbered_components(d, np, tp, maxc) == ComponentsFrom(d, np, tp, 1, maxc, <<>>)

\* A faulty variant of NodesFrom: an absent or empty field is skipped
\* (`continue`) instead of ending the scan (`break`).
RECURSIVE NodesFrom_skipping_gaps(_, _, _, _, _)
NodesFrom_skipping_gaps(d, p, i, maxc, acc) ==
    IF i > maxc THEN acc
    ELSE LET node_name == ScanField(d, p, i)
         IN  NodesFrom_skipping_gaps(d, p, i + 1, maxc,
                 IF Falsy(node_name) THEN acc ELSE Append(acc, node_name.v))

RECURSIVE NodesFrom(_, _, _, _, _)
NodesFrom(d, p, i, maxc, acc) ==
    IF i > maxc THEN acc
    ELSE LET node_name == ScanField(d, p, i)
         IN  IF Falsy(node_name) THEN acc
             ELSE NodesFrom(d, p, i + 1, maxc, Append(acc, node_name.v))

iter_numbered_nodes(d, p, maxc) == NodesFrom(d, p, 1, maxc, <<>>)

(***************************************************************************)
(* Strings whose characters the code inspects (connector object types) are *)
(* written as sequences of one-character strings.                          *)
(***************************************************************************)

UpperAlphabet ==
    <<"A","B","C","D","E","F","G","H","I","J","K","L","M",
      "N","O","P","Q","R","S","T","U","V","W","X","Y","Z">>
LowerAlphabet ==
    <<"a","b","c","d","e","f","g","h","i","j","k","l","m",
      "n","o","p","q","r","s","t","u","v","w","x","y","z">>

\* str.lower()
LowerChar(c) ==
    IF \E i \in 1..Len(UpperAlphabet) : UpperAlphabet[i] = c
    THEN LowerAlphabet[CHOOSE i \in 1..Len(UpperAlphabet) : UpperAlphabet[i] = c]
    ELSE c
Lower(s) == [i \in 1..Len(s) |-> LowerChar(s[i])]

\* str.endswith(suffix)
EndsWith(s, suffix) ==
    /\ Len(s) >= Len(suffix)
    /\ SubSeq(s, Len(s) - Len(suffix) + 1, Len(s)) = suffix

SplitterSuffix == <<"s","p","l","i","t","t","e","r">>
MixerSuffix == <<"m","i","x","e","r">>

(***************************************************************************)
(* A str argument, or the 1-tuple a trailing comma makes of it.            *)
(***************************************************************************)
PyStr(s) == [tuple |-> FALSE, s |-> s]
PyTuple1(s) == [tuple |-> TRUE, s |-> s]
\* key == v for a str key: a str never equals a tuple.
KeyEq(key, v) == ~v.tuple /\ key = v.s
\* truthiness: a 1-tuple is non-empty, a str is truthy unless "".
PyTruthy(v) == v.tuple \/ Truthy(v.s)

(***************************************************************************)
(* measures/hvac.py: branch resolution.                                    *)
(***************************************************************************)

ComponentFields ==
    {"component_object_type", "component_name",
     "component_inlet_node_name", "component_outlet_node_name"}

RECURSIVE BranchComponents(_, _, _)
BranchComponents(comps, i, acc) ==
    IF i > Len(comps) THEN Ret(acc)
    ELSE IF \E f \in ComponentFields : ~Has(comps[i], f) THEN Raise("KeyError")
    ELSE BranchComponents(comps, i + 1,
             Append(acc, [type |-> comps[i]["component_object_type"],
                          name |-> comps[i]["component_name"],
                          inlet_node |-> comps[i]["component_inlet_node_name"],
                          outlet_node |-> comps[i]["component_outlet_node_name"]]))

\* A faulty variant of get_branch_details: a Branch that does not exist gets a
\* record with no components instead of None.
get_branch_details_placeholder(e, branch_name) ==
    LET branch_objs == Coll(e, "Branch")
    IN  IF InColl(branch_objs, branch_name)
        THEN LET obj == Lookup(branch_objs, branch_name)
             IN  IF ~Has(obj, "components") THEN Raise("KeyError")
                 ELSE LET cs == BranchComponents(obj["components"], 1, <<>>)
                      IN  IF cs.raised THEN cs
                          ELSE Ret(Some([name |-> branch_name, components |-> cs.val]))
        ELSE Ret(Some([name |-> branch_name, components |-> <<>>]))

\* Returns Optional[dict]: None when the Branch does not exist.
get_branch_details(e, branch_name) ==
    LET branch_objs == Coll(e, "Branch")
    IN  IF InColl(branch_objs, branch_name)
        THEN LET obj == Lookup(branch_objs, branch_name)
             IN  IF ~Has(obj, "components") THEN Raise("KeyError")
                 ELSE LET cs == BranchComponents(obj["components"], 1, <<>>)
                      IN  IF cs.raised THEN cs
                          ELSE Ret(Some([name |-> branch_name, components |-> cs.val]))
        ELSE Ret(PyNone)

RECURSIVE BranchesOf(_, _, _, _)
BranchesOf(e, refs, i, acc) ==
    IF i > Len(refs) THEN Ret(acc)
    ELSE IF ~Has(refs[i], "branch_name") THEN Raise("KeyError")
    ELSE LET branch_info == get_branch_details(e, refs[i]["branch_name"])
         IN  IF branch_info.raised THEN branch_info
             ELSE BranchesOf(e, refs, i + 1,
                      IF branch_info.val.none THEN acc
                      ELSE Append(acc, branch_info.val.v))

\* The "branches" value of a BranchList naming `names`.
BranchRefs(names) == [i \in 1..Len(names) |-> [branch_name |-> names[i]]]

\* A faulty variant of get_branches_from_list: it walks the Branch collection
\* and keeps the branches the list names, so they come in collection order.
get_branches_from_list_by_collection(e, branch_list_name) ==
    LET branch_lists == Coll(e, "BranchList")
        hits == {i \in 1..Len(branch_lists) : KeyEq(branch_lists[i].name, branch_list_name)}
    IN  IF hits = {} THEN Ret(<<>>)
        ELSE LET bl == branch_lists[CHOOSE i \in hits : TRUE].attrs
                 named == {bl["branches"][i]["branch_name"] : i \in 1..Len(bl["branches"])}
                 kept == SelectSeq(Coll(e, "Branch"), LAMBDA b : b.name \in named)
             IN  BranchesOf(e, BranchRefs([i \in 1..Len(kept) |-> kept[i].name]), 1, <<>>)

\* branch_list_name is a PyStr or a PyTuple1.
get_branches_from_list(e, branch_list_name) ==
    LET branch_lists == Coll(e, "BranchList")
        hits == {i \in 1..Len(branch_lists) : KeyEq(branch_lists[i].name, branch_list_name)}
    IN  IF hits = {} THEN Ret(<<>>)
        ELSE LET bl == branch_lists[CHOOSE i \in hits : \A j \in hits : i <= j].attrs
             IN  IF ~Has(bl, "branches") THEN Raise("KeyError")
                 ELSE BranchesOf(e, bl["branches"], 1, <<>>)

(***************************************************************************)
(* measures/hvac.py: connector resolution.                                 *)
(***************************************************************************)

\* A faulty variant of BranchNames: only the first branch record is read.
BranchNames_first_only(data, field) ==
    LET recs == SelectSeq(Get(data, "branches", <<>>), LAMBDA b : Has(b, field))
    IN  [j \in 1..(IF Len(recs) > 0 THEN 1 ELSE 0) |-> recs[j][field]]

\* The outlet (inlet) branch names of a Connector:Splitter (Mixer) object's
\* branch records that carry the field.
BranchNames(data, field) ==
    LET recs == SelectSeq(Get(data, "branches", <<>>), LAMBDA b : Has(b, field))
    IN  [j \in 1..Len(recs) |-> recs[j][field]]

\* ep.get(type, {}).get(connector_name, {})
ConnectorData(e, type, connector_name) ==
    IF InColl(Coll(e, type), connector_name)
    THEN Lookup(Coll(e, type), connector_name) ELSE <<>>

SplitterInfo(e, connector_name, connector_type) ==
    LET splitter_data == ConnectorData(e, "Connector:Splitter", connector_name)
    IN  [name |-> connector_name,
         type |-> connector_type,
         inlet_branch |-> Get(splitter_data, "inlet_branch_name", "Unknown"),
         outlet_branches |-> BranchNames(splitter_data, "outlet_branch_name")]

MixerInfo(e, connector_name, connector_type) ==
    LET mixer_data == ConnectorData(e, "Connector:Mixer", connector_name)
    IN  [name |-> connector_name,
         type |-> connector_type,
         inlet_branches |-> BranchNames(mixer_data, "inlet_branch_name"),
         outlet_branch |-> Get(mixer_data, "outlet_branch_name", "Unknown")]

\* A faulty variant of IsSplitterType: the suffix is compared without lower().
IsSplitterType_case_sensitive(connector_type) == EndsWith(connector_type, SplitterSuffix)

\* connector_type.lower().endswith('splitter') / ('mixer')
IsSplitterType(connector_type) == EndsWith(Lower(connector_type), SplitterSuffix)
IsMixerType(connector_type) == EndsWith(Lower(connector_type), MixerSuffix)

\* A faulty variant of OddKeyCount: the parity of the key count is not tested.
OddKeyCount_unchecked(connector_data) == FALSE

\* `not len_connector_keys % 2 == 0`
OddKeyCount(connector_data) == Cardinality(DOMAIN connector_data) % 2 # 0

\* The loop body for i = 1..n.  connector_info is the loop's local variable: it
\* is unbound (None here) until a splitter or mixer entry assigns it, and it
\* keeps its value when an entry's type matches neither suffix.
RECURSIVE ConnectorsFrom(_, _, _, _, _, _)
ConnectorsFrom(e, connector_data, i, n, connector_info, connectors) ==
    IF i > n THEN Ret(Some(connectors))
    ELSE LET name_key == "connector_" \o ToString(i) \o "_name"
             type_key == "connector_" \o ToString(i) \o "_object_type"
         IN  IF ~Has(connector_data, name_key) \/ ~Has(connector_data, type_key)
             THEN Raise("KeyError")
             ELSE LET connector_name == connector_data[name_key]
                      connector_type == connector_data[type_key]
                      info == IF IsSplitterType(connector_type)
                              THEN Some(SplitterInfo(e, connector_name, connector_type))
                              ELSE IF IsMixerType(connector_type)
                              THEN Some(MixerInfo(e, connector_name, connector_type))
                              ELSE connector_info
                  IN  IF info.none THEN Raise("UnboundLocalError")
                      ELSE ConnectorsFrom(e, connector_data, i + 1, n, info,
                               Append(connectors, info.v))

\* Returns Optional[list]: None for a missing list and for an odd key count.
get_connectors_from_list(e, connector_list_name) ==
    LET connector_lists == Coll(e, "ConnectorList")
    IN  IF InColl(connector_lists, connector_list_name)
        THEN LET connector_data == Lookup(connector_lists, connector_list_name)
                 len_connector_keys == Cardinality(DOMAIN connector_data)
             IN  IF OddKeyCount(connector_data) THEN Ret(PyNone)
                 ELSE ConnectorsFrom(e, connector_data, 1, len_connector_keys \div 2,
                          PyNone, <<>>)
        ELSE Ret(PyNone)

(***************************************************************************)
(* measures/hvac.py: Plant and Condenser loops.                            *)
(***************************************************************************)

\* A faulty variant of PlantSide: the plant-side field is read whatever the
\* kind of the loop.
PlantSide_plant_only(loop_obj, loop_type, plant_field, condenser_field, default) ==
    Get(loop_obj, plant_field, default)

PlantSide(loop_obj, loop_type, plant_field, condenser_field, default) ==
    IF loop_type = "PlantLoop" THEN Get(loop_obj, plant_field, default)
    ELSE IF loop_type = "CondenserLoop" THEN Get(loop_obj, condenser_field, default)
    ELSE ""

PlantListName(loop_obj, loop_type, plant_field, condenser_field, supply_field) ==
    IF loop_type = "PlantLoop" THEN Get(loop_obj, plant_field, "")
    ELSE IF loop_type = "CondenserLoop" THEN Get(loop_obj, condenser_field, "")
    ELSE Get(loop_obj, supply_field, "")

\* `if name: side["branches"] = self._get_branches_from_list(ep, name)`
BranchesIf(e, name) ==
    IF Truthy(name) THEN get_branches_from_list(e, PyStr(name)) ELSE Ret(<<>>)

\* `if name: side["connector_lists"] = self._get_connectors_from_list(ep, name)`
ConnectorsIf(e, name) ==
    IF Truthy(name) THEN get_connectors_from_list(e, name) ELSE Ret(Some(<<>>))

get_plant_condenser_topology(e, loop_obj, loop_type, loop_name) ==
    LET supply_branch_list_name ==
            PlantListName(loop_obj, loop_type, "plant_side_branch_list_name",
                "condenser_side_branch_list_name", "supply_side_branch_list_name")
        demand_branch_list_name == Get(loop_obj, "demand_side_branch_list_name", "")
        supply_connector_list ==
            PlantListName(loop_obj, loop_type, "plant_side_connector_list_name",
                "condenser_side_connector_list_name", "supply_side_connector_list_name")
        demand_connector_list == Get(loop_obj, "demand_side_connector_list_name", "")
        supply_branches == BranchesIf(e, supply_branch_list_name)
        demand_branches == BranchesIf(e, demand_branch_list_name)
        supply_connectors == ConnectorsIf(e, supply_connector_list)
        demand_connectors == ConnectorsIf(e, demand_connector_list)
    IN  IF supply_branches.raised THEN supply_branches
        ELSE IF demand_branches.raised THEN demand_branches
        ELSE IF supply_connectors.raised THEN supply_connectors
        ELSE IF demand_connectors.raised THEN demand_connectors
        ELSE Ret([loop_name |-> loop_name,
                  loop_type |-> loop_type,
                  supply_side |->
                      [branches |-> supply_branches.val,
                       inlet_node |-> PlantSide(loop_obj, loop_type,
                           "plant_side_inlet_node_name",
                           "condenser_side_inlet_node_name", "Unknown"),
                       outlet_node |-> PlantSide(loop_obj, loop_type,
                           "plant_side_outlet_node_name",
                           "condenser_side_outlet_node_name", "Unknown"),
                       connector_lists |-> supply_connectors.val],
                  demand_side |->
                      [branches |-> demand_branches.val,
                       inlet_node |-> Get(loop_obj, "demand_side_inlet_node_name", "Unknown"),
                       outlet_node |-> Get(loop_obj, "demand_side_outlet_node_name", "Unknown"),
                       connector_lists |-> demand_connectors.val]])

(***************************************************************************)
(* measures/hvac.py: air loops.                                            *)
(***************************************************************************)

RECURSIVE Flatten(_)
Flatten(ss) == IF ss = <<>> THEN <<>> ELSE Head(ss) \o Flatten(Tail(ss))

\* A faulty variant of PathInfo: a path without its node field is recorded
\* with the node "Unknown".
PathInfo_unknown_node(entry, node_key, node_field) ==
    (node_key :> Get(entry.attrs, node_field, "Unknown")) @@
    [name |-> entry.name,
     components |-> iter_numbered_components(entry.attrs,
                        ComponentNamePattern, ComponentTypePattern, max_count)]

PathInfo(entry, node_key, node_field) ==
    (node_key :> Get(entry.attrs, node_field, "")) @@
    [name |-> entry.name,
     components |-> iter_numbered_components(entry.attrs,
                        ComponentNamePattern, ComponentTypePattern, max_count)]

\* A faulty variant of PathNodeMatches: node names are compared ignoring case
\* (the node names of the models differ in case as n1/N1 and n5/N5).
FoldCase(node) == IF node = "n1" THEN "N1" ELSE IF node = "n5" THEN "N5" ELSE node
PathNodeMatches_ignoring_case(path_node, node) == FoldCase(path_node) = FoldCase(node)

\* `path_inlet_node == inlet_node` (and the same test on return paths)
PathNodeMatches(path_node, node) == path_node = node

get_airloop_supply_paths_by_node(e, inlet_node) ==
    LET matched == SelectSeq(Coll(e, "AirLoopHVAC:SupplyPath"),
                       LAMBDA sp : PathNodeMatches(
                           Get(sp.attrs, "supply_air_path_inlet_node_name", ""), inlet_node))
    IN  [i \in 1..Len(matched) |->
            PathInfo(matched[i], "inlet_node", "supply_air_path_inlet_node_name")]

get_airloop_return_paths_by_node(e, outlet_node) ==
    LET matched == SelectSeq(Coll(e, "AirLoopHVAC:ReturnPath"),
                       LAMBDA rp : PathNodeMatches(
                           Get(rp.attrs, "return_air_path_outlet_node_name", ""), outlet_node))
    IN  [i \in 1..Len(matched) |->
            PathInfo(matched[i], "outlet_node", "return_air_path_outlet_node_name")]

air_terminal_types ==
    <<"AirTerminal:SingleDuct:Uncontrolled",
      "AirTerminal:SingleDuct:VAV:Reheat",
      "AirTerminal:SingleDuct:VAV:NoReheat",
      "AirTerminal:SingleDuct:ConstantVolume:Reheat",
      "AirTerminal:SingleDuct:ConstantVolume:NoReheat",
      "AirTerminal:DualDuct:VAV",
      "AirTerminal:DualDuct:ConstantVolume",
      "ZoneHVAC:Baseboard:Convective:Electric",
      "ZoneHVAC:Baseboard:Convective:Water",
      "ZoneHVAC:PackagedTerminalAirConditioner",
      "ZoneHVAC:PackagedTerminalHeatPump",
      "ZoneHVAC:WindowAirConditioner",
      "ZoneHVAC:UnitHeater",
      "ZoneHVAC:UnitVentilator",
      "ZoneHVAC:EnergyRecoveryVentilator",
      "ZoneHVAC:FourPipeFanCoil",
      "ZoneHVAC:IdealLoadsAirSystem">>

\* a or b for two str values
StrOr(a, b) == IF Truthy(a) THEN a ELSE b

\* A faulty variant of TerminalInlet: the aliases are tried in the reverse order.
TerminalInlet_reversed_priority(terminal) ==
    StrOr(Get(terminal, "zone_supply_air_node_name", ""),
      StrOr(Get(terminal, "supply_air_inlet_node_name", ""),
        StrOr(Get(terminal, "air_inlet_node", ""),
              Get(terminal, "air_inlet_node_name", ""))))

TerminalInlet(terminal) ==
    StrOr(Get(terminal, "air_inlet_node_name", ""),
      StrOr(Get(terminal, "air_inlet_node", ""),
        StrOr(Get(terminal, "supply_air_inlet_node_name", ""),
              Get(terminal, "zone_supply_air_node_name", ""))))

TerminalOutlet(terminal) ==
    StrOr(Get(terminal, "air_outlet_node_name", ""),
      StrOr(Get(terminal, "air_outlet_node", ""),
            Get(terminal, "zone_air_node_name", "Unknown")))

EquipmentInfo(terminal_type, entry) ==
    LET base == [type |-> terminal_type,
                 name |-> entry.name,
                 inlet_node |-> TerminalInlet(entry.attrs),
                 outlet_node |-> TerminalOutlet(entry.attrs)]
    IN  IF Has(entry.attrs, "zone_name")
        THEN ("zone_name" :> entry.attrs["zone_name"]) @@ base
        ELSE base

\* A faulty variant of TerminalMatches: a terminal with no populated inlet
\* alias is taken to match any node.
TerminalMatches_or_unset(terminal, inlet_node) ==
    ~Truthy(TerminalInlet(terminal)) \/ TerminalInlet(terminal) = inlet_node

\* `terminal_inlet == inlet_node`
TerminalMatches(terminal, inlet_node) == TerminalInlet(terminal) = inlet_node

\* A faulty variant of get_zone_equipment_for_node: the search ends at the
\* first object that matches.
get_zone_equipment_for_node_first_match(e, inlet_node) ==
    LET all == Flatten([t \in 1..Len(air_terminal_types) |->
                   LET matched == SelectSeq(Coll(e, air_terminal_types[t]),
                                      LAMBDA tm : TerminalMatches(tm.attrs, inlet_node))
                   IN  [i \in 1..Len(matched) |->
                           EquipmentInfo(air_terminal_types[t], matched[i])]])
    IN  IF all = <<>> THEN <<>> ELSE <<Head(all)>>

get_zone_equipment_for_node(e, inlet_node) ==
    Flatten([t \in 1..Len(air_terminal_types) |->
        LET matched == SelectSeq(Coll(e, air_terminal_types[t]),
                           LAMBDA tm : TerminalMatches(tm.attrs, inlet_node))
        IN  [i \in 1..Len(matched) |-> EquipmentInfo(air_terminal_types[t], matched[i])]])

\* Each of the three return Optional[dict]: None when the object does not exist.
\* A faulty variant of get_airloop_zone_splitter_details: the outlet nodes are
\* scanned with the mixer's inlet pattern.
get_airloop_zone_splitter_details_inlet_pattern(e, splitter_name) ==
    LET splitter_objs == Coll(e, "AirLoopHVAC:ZoneSplitter")
    IN  IF InColl(splitter_objs, splitter_name)
        THEN LET splitter == Lookup(splitter_objs, splitter_name)
             IN  Some([name |-> splitter_name,
                       type |-> "AirLoopHVAC:ZoneSplitter",
                       inlet_node |-> Get(splitter, "inlet_node_name", "Unknown"),
                       outlet_nodes |-> iter_numbered_nodes(splitter, InletNodePattern, max_count)])
        ELSE PyNone

get_airloop_zone_splitter_details(e, splitter_name) ==
    LET splitter_objs == Coll(e, "AirLoopHVAC:ZoneSplitter")
    IN  IF InColl(splitter_objs, splitter_name)
        THEN LET splitter == Lookup(splitter_objs, splitter_name)
             IN  Some([name |-> splitter_name,
                       type |-> "AirLoopHVAC:ZoneSplitter",
                       inlet_node |-> Get(splitter, "inlet_node_name", "Unknown"),
                       outlet_nodes |-> iter_numbered_nodes(splitter, OutletNodePattern, max_count)])
        ELSE PyNone

get_airloop_zone_mixer_details(e, mixer_name) ==
    LET mixer_objs == Coll(e, "AirLoopHVAC:ZoneMixer")
    IN  IF InColl(mixer_objs, mixer_name)
        THEN LET mixer == Lookup(mixer_objs, mixer_name)
             IN  Some([name |-> mixer_name,
                       type |-> "AirLoopHVAC:ZoneMixer",
                       outlet_node |-> Get(mixer, "outlet_node_name", "Unknown"),
                       inlet_nodes |-> iter_numbered_nodes(mixer, InletNodePattern, max_count)])
        ELSE PyNone

\* A faulty variant of get_airloop_return_plenum_details: the plenum is looked
\* up among the zone mixers.
get_airloop_return_plenum_details_among_mixers(e, plenum_name) ==
    LET plenum_objs == Coll(e, "AirLoopHVAC:ZoneMixer")
    IN  IF InColl(plenum_objs, plenum_name)
        THEN LET plenum == Lookup(plenum_objs, plenum_name)
             IN  Some([name |-> plenum_name,
                       type |-> "AirLoopHVAC:ReturnPlenum",
                       zone_name |-> Get(plenum, "zone_name", "Unknown"),
                       zone_node_name |-> Get(plenum, "zone_node_name", "Unknown"),
                       outlet_node |-> Get(plenum, "outlet_node_name", "Unknown"),
                       induced_air_outlet_node |->
                           Get(plenum, "induced_air_outlet_node_or_nodelist_name", ""),
                       inlet_nodes |-> iter_numbered_nodes(plenum, InletNodePattern, max_count)])
        ELSE PyNone

get_airloop_return_plenum_details(e, plenum_name) ==
    LET plenum_objs == Coll(e, "AirLoopHVAC:ReturnPlenum")
    IN  IF InColl(plenum_objs, plenum_name)
        THEN LET plenum == Lookup(plenum_objs, plenum_name)
             IN  Some([name |-> plenum_name,
                       type |-> "AirLoopHVAC:ReturnPlenum",
                       zone_name |-> Get(plenum, "zone_name", "Unknown"),
                       zone_node_name |-> Get(plenum, "zone_node_name", "Unknown"),
                       outlet_node |-> Get(plenum, "outlet_node_name", "Unknown"),
                       induced_air_outlet_node |->
                           Get(plenum, "induced_air_outlet_node_or_nodelist_name", ""),
                       inlet_nodes |-> iter_numbered_nodes(plenum, InletNodePattern, max_count)])
        ELSE PyNone

\* The details of every component of `paths` whose type is `type` and whose
\* object exists, in path order then component order.
PathDetails(paths, type, Details(_)) ==
    Flatten([p \in 1..Len(paths) |->
        Flatten([c \in 1..Len(paths[p].components) |->
            IF paths[p].components[c].type = type
               /\ ~Details(paths[p].components[c].name).none
            THEN <<Details(paths[p].components[c].name).v>>
            ELSE <<>>])])

\* The branch list name is read with a trailing comma, which makes it a 1-tuple.
AirLoopBranchListName(loop_obj) ==
    PyTuple1(Get(loop_obj, "plant_side_branch_list_name", "Unknown"))

\* A faulty variant of get_airloop_topology: the flattened components are
\* taken from a second resolution of the branch list, by the name itself,
\* instead of from the branches stored in supply_side.branches.
get_airloop_topology_components_by_name(e, loop_obj, loop_name) ==
    LET supply_branch_list_name == AirLoopBranchListName(loop_obj)
        supply_branches ==
            IF PyTruthy(supply_branch_list_name)
            THEN get_branches_from_list(e, supply_branch_list_name)
            ELSE Ret(<<>>)
        named_branches ==
            get_branches_from_list(e, PyStr(Get(loop_obj, "plant_side_branch_list_name", "")))
        demand_inlet_node == Get(loop_obj, "demand_side_inlet_node_names", "Unknown")
        demand_outlet_node == Get(loop_obj, "demand_side_outlet_node_names", "Unknown")
        supply_paths == get_airloop_supply_paths_by_node(e, demand_inlet_node)
        return_paths == get_airloop_return_paths_by_node(e, demand_outlet_node)
        zone_splitters ==
            PathDetails(supply_paths, "AirLoopHVAC:ZoneSplitter",
                LAMBDA n : get_airloop_zone_splitter_details(e, n))
        zone_mixers ==
            PathDetails(return_paths, "AirLoopHVAC:ZoneMixer",
                LAMBDA n : get_airloop_zone_mixer_details(e, n))
        return_plenums ==
            PathDetails(return_paths, "AirLoopHVAC:ReturnPlenum",
                LAMBDA n : get_airloop_return_plenum_details(e, n))
        zone_equipment ==
            Flatten([s \in 1..Len(zone_splitters) |->
                Flatten([o \in 1..Len(zone_splitters[s].outlet_nodes) |->
                    get_zone_equipment_for_node(e, zone_splitters[s].outlet_nodes[o])])])
    IN  IF supply_branches.raised THEN supply_branches
        ELSE IF named_branches.raised THEN named_branches
        ELSE Ret([loop_name |-> loop_name,
                  loop_type |-> "AirLoopHVAC",
                  supply_side |->
                      [branches |-> supply_branches.val,
                       inlet_node |-> Get(loop_obj, "supply_side_inlet_node_name", "Unknown"),
                       outlet_node |-> Get(loop_obj, "supply_side_outlet_node_name", "Unknown"),
                       components |->
                           Flatten([b \in 1..Len(named_branches.val) |->
                               named_branches.val[b].components]),
                       supply_paths |-> <<>>],
                  demand_side |->
                      [inlet_node |-> demand_inlet_node,
                       outlet_node |-> demand_outlet_node,
                       zone_splitters |-> zone_splitters,
                       zone_mixers |-> zone_mixers,
                       return_plenums |-> return_plenums,
                       zone_equipment |-> zone_equipment,
                       supply_paths |-> supply_paths,
                       return_paths |-> return_paths]])

get_airloop_topology(e, loop_obj, loop_name) ==
    LET supply_branch_list_name == AirLoopBranchListName(loop_obj)
        supply_branches ==
            IF PyTruthy(supply_branch_list_name)
            THEN get_branches_from_list(e, supply_branch_list_name)
            ELSE Ret(<<>>)
        demand_inlet_node == Get(loop_obj, "demand_side_inlet_node_names", "Unknown")
        demand_outlet_node == Get(loop_obj, "demand_side_outlet_node_names", "Unknown")
        supply_paths == get_airloop_supply_paths_by_node(e, demand_inlet_node)
        return_paths == get_airloop_return_paths_by_node(e, demand_outlet_node)
        zone_splitters ==
            PathDetails(supply_paths, "AirLoopHVAC:ZoneSplitter",
                LAMBDA n : get_airloop_zone_splitter_details(e, n))
        zone_mixers ==
            PathDetails(return_paths, "AirLoopHVAC:ZoneMixer",
                LAMBDA n : get_airloop_zone_mixer_details(e, n))
        return_plenums ==
            PathDetails(return_paths, "AirLoopHVAC:ReturnPlenum",
                LAMBDA n : get_airloop_return_plenum_details(e, n))
        zone_equipment ==
            Flatten([s \in 1..Len(zone_splitters) |->
                Flatten([o \in 1..Len(zone_splitters[s].outlet_nodes) |->
                    get_zone_equipment_for_node(e, zone_splitters[s].outlet_nodes[o])])])
    IN  IF supply_branches.raised THEN supply_branches
        ELSE Ret([loop_name |-> loop_name,
                  loop_type |-> "AirLoopHVAC",
                  supply_side |->
                      [branches |-> supply_branches.val,
                       inlet_node |-> Get(loop_obj, "supply_side_inlet_node_name", "Unknown"),
                       outlet_node |-> Get(loop_obj, "supply_side_outlet_node_name", "Unknown"),
                       components |->
                           Flatten([b \in 1..Len(supply_branches.val) |->
                               supply_branches.val[b].components]),
                       supply_paths |-> <<>>],
                  demand_side |->
                      [inlet_node |-> demand_inlet_node,
                       outlet_node |-> demand_outlet_node,
                       zone_splitters |-> zone_splitters,
                       zone_mixers |-> zone_mixers,
                       return_plenums |-> return_plenums,
                       zone_equipment |-> zone_equipment,
                       supply_paths |-> supply_paths,
                       return_paths |-> return_paths]])

(***************************************************************************)
(* measures/hvac.py: the two public operations.                            *)
(***************************************************************************)

\* The loop object found for a name, by membership in the fixed order
\* PlantLoop, CondenserLoop, AirLoopHVAC; None when no collection has it.
\* A faulty variant of FindLoop: the collections are tried in the order
\* AirLoopHVAC, CondenserLoop, PlantLoop.
FindLoop_air_first(e, loop_name) ==
    IF InColl(Coll(e, "AirLoopHVAC"), loop_name)
    THEN Some([loop_type |-> "AirLoopHVAC",
               loop_obj |-> Lookup(Coll(e, "AirLoopHVAC"), loop_name)])
    ELSE IF InColl(Coll(e, "CondenserLoop"), loop_name)
    THEN Some([loop_type |-> "CondenserLoop",
               loop_obj |-> Lookup(Coll(e, "CondenserLoop"), loop_name)])
    ELSE IF InColl(Coll(e, "PlantLoop"), loop_name)
    THEN Some([loop_type |-> "PlantLoop", loop_obj |-> Lookup(Coll(e, "PlantLoop"), loop_name)])
    ELSE PyNone

FindLoop(e, loop_name) ==
    IF InColl(Coll(e, "PlantLoop"), loop_name)
    THEN Some([loop_type |-> "PlantLoop", loop_obj |-> Lookup(Coll(e, "PlantLoop"), loop_name)])
    ELSE IF InColl(Coll(e, "CondenserLoop"), loop_name)
    THEN Some([loop_type |-> "CondenserLoop",
               loop_obj |-> Lookup(Coll(e, "CondenserLoop"), loop_name)])
    ELSE IF InColl(Coll(e, "AirLoopHVAC"), loop_name)
    THEN Some([loop_type |-> "AirLoopHVAC",
               loop_obj |-> Lookup(Coll(e, "AirLoopHVAC"), loop_name)])
    ELSE PyNone

\* `except Exception as e: raise RuntimeError(f"...: {str(e)}")`
Rethrow(r) ==
    IF r.raised THEN [raised |-> TRUE, exc |-> "RuntimeError", cause |-> r.exc] ELSE r

\* A faulty variant of get_loop_topology: a loop that is not found gets the
\* topology_info the code has prepared, unfilled, instead of an error.
get_loop_topology_unfilled(e, loop_name) ==
    LET found == FindLoop(e, loop_name)
        side == [branches |-> <<>>, inlet_node |-> "", outlet_node |-> "",
                 connector_lists |-> Some(<<>>)]
    IN  Rethrow(
            IF found.none \/ DOMAIN found.v.loop_obj = {}
            THEN Ret([loop_name |-> loop_name, loop_type |-> "",
                      supply_side |-> side, demand_side |-> side])
            ELSE IF found.v.loop_type = "AirLoopHVAC"
            THEN get_airloop_topology(e, found.v.loop_obj, loop_name)
            ELSE get_plant_condenser_topology(e, found.v.loop_obj,
                     found.v.loop_type, loop_name))

get_loop_topology(e, loop_name) ==
    LET found == FindLoop(e, loop_name)
    IN  Rethrow(
            \* `if not loop_obj`: None, and also an empty dict
            IF found.none \/ DOMAIN found.v.loop_obj = {} THEN Raise("ValueError")
            ELSE IF found.v.loop_type = "AirLoopHVAC"
            THEN get_airloop_topology(e, found.v.loop_obj, loop_name)
            ELSE get_plant_condenser_topology(e, found.v.loop_obj,
                     found.v.loop_type, loop_name))

(***************************************************************************)
(* energyplus_tools.py and server.py: the manager method the tool handler   *)
(* calls, and the handler.  The manager's method and its resolvers are      *)
(* copies of those of measures/hvac.py; its first parameter is the path of  *)
(* an epJSON file.                                                          *)
(***************************************************************************)

\* The first argument of the manager's method: the path of a file holding the
\* model `data`, or the loaded model itself.
PyPathTo(data) == [is_str |-> TRUE, data |-> data]
PyData(data) == [is_str |-> FALSE, data |-> data]

\* `epjson_path.lower()`: only a str has the method.
resolve_epjson_path(epjson_path) ==
    IF epjson_path.is_str THEN Ret(epjson_path) ELSE Raise("AttributeError")

\* The path is resolved before the try block; what the body raises is
\* re-raised as RuntimeError.
manager_get_loop_topology(epjson_path, loop_name) ==
    LET resolved_path == resolve_epjson_path(epjson_path)
    IN  IF resolved_path.raised THEN resolved_path
        ELSE get_loop_topology(resolved_path.val.data, loop_name)

\* isinstance(exception, cls) for the classes the handler names.
IsInstance(exc, cls) == cls = "Exception" \/ exc = cls

\* The handler's response, by its first except clause that matches.
ToolResponse(outcome) ==
    IF ~outcome.raised THEN "Loop topology for"
    ELSE IF IsInstance(outcome.exc, "FileNotFoundError") THEN "File not found"
    ELSE IF IsInstance(outcome.exc, "ValueError") THEN "Loop not found"
    ELSE "Error getting loop topology for"

\* The handler loads the model and hands the loaded data to the manager.
tool_get_loop_topology(ep_data, loop_name) ==
    ToolResponse(manager_get_loop_topology(PyData(ep_data), loop_name))

PlantLoopInfo(i, entry) ==
    [index |-> i,
     name |-> entry.name,
     fluid_type |-> Get(entry.attrs, "fluid_type", "Unknown"),
     max_loop_flow_rate |-> Get(entry.attrs, "maximum_loop_flow_rate", "Uknown"),
     loop_inlet_node |-> Get(entry.attrs, "plant_side_inlet_node_name", "Uknown"),
     loop_outlet_node |-> Get(entry.attrs, "plant_side_outlet_node_name", "Uknown"),
     demand_inlet_node |-> Get(entry.attrs, "demand_side_inlet_node_name", "Uknown"),
     demand_outlet_node |-> Get(entry.attrs, "demand_side_outlet_node_name", "Uknown")]

CondenserLoopInfo(i, entry) ==
    [index |-> i,
     name |-> entry.name,
     fluid_type |-> Get(entry.attrs, "fluid_type", "Unknown"),
     max_loop_flow_rate |-> Get(entry.attrs, "maximum_loop_flow_rate", "Unknown"),
     loop_inlet_node |-> Get(entry.attrs, "condenser_side_inlet_node_name", "Unknown"),
     loop_outlet_node |-> Get(entry.attrs, "condenser_side_outlet_node_name", "Unknown"),
     demand_inlet_node |-> Get(entry.attrs, "demand_side_inlet_node_name", "Unknown"),
     demand_outlet_node |-> Get(entry.attrs, "demand_side_outlet_node_name", "Unknown")]

AirLoopInfo(i, entry) ==
    [index |-> i,
     name |-> entry.name,
     supply_inlet_node |-> Get(entry.attrs, "supply_side_inlet_node_name", "Unknown"),
     supply_outlet_node |-> Get(entry.attrs, "supply_side_outlet_node_name", "Unknown"),
     demand_inlet_node |-> Get(entry.attrs, "demand_side_inlet_node_names", "Unknown"),
     demand_outlet_node |-> Get(entry.attrs, "demand_side_outlet_node_names", "Unknown")]

\* A faulty variant of discover_hvac_loops: the condenser count is taken from
\* the plant loops.
discover_hvac_loops_miscounted(e) ==
    LET plant_loops == Coll(e, "PlantLoop")
        condenser_loops == Coll(e, "CondenserLoop")
        air_loops == Coll(e, "AirLoopHVAC")
    IN  Ret([plant_loops |-> [i \in 1..Len(plant_loops) |-> PlantLoopInfo(i, plant_loops[i])],
             condenser_loops |->
                 [i \in 1..Len(condenser_loops) |-> CondenserLoopInfo(i, condenser_loops[i])],
             air_loops |-> [i \in 1..Len(air_loops) |-> AirLoopInfo(i, air_loops[i])],
             summary |-> [total_plant_loops |-> Len(plant_loops),
                          total_condenser_loops |-> Len(plant_loops),
                          total_air_loops |-> Len(air_loops),
                          total_zones |-> Len(Coll(e, "Zone"))]])

discover_hvac_loops(e) ==
    LET plant_loops == Coll(e, "PlantLoop")
        condenser_loops == Coll(e, "CondenserLoop")
        air_loops == Coll(e, "AirLoopHVAC")
    IN  Ret([plant_loops |-> [i \in 1..Len(plant_loops) |-> PlantLoopInfo(i, plant_loops[i])],
             condenser_loops |->
                 [i \in 1..Len(condenser_loops) |-> CondenserLoopInfo(i, condenser_loops[i])],
             air_loops |-> [i \in 1..Len(air_loops) |-> AirLoopInfo(i, air_loops[i])],
             summary |-> [total_plant_loops |-> Len(plant_loops),
                          total_condenser_loops |-> Len(condenser_loops),
                          total_air_loops |-> Len(air_loops),
                          total_zones |-> Len(Coll(e, "Zone"))]])

\* A faulty variant of ModelAfter: a topology query reads the loop collections
\* with setdefault, which adds the missing ones to the model.
ModelAfter_filling_collections(e, o) ==
    IF o = "get_loop_topology"
    THEN [t \in DOMAIN e \cup {"PlantLoop", "CondenserLoop", "AirLoopHVAC"} |-> Coll(e, t)]
    ELSE e

\* A faulty variant of ModelAfter: a topology query takes the BranchList
\* collection out of the model with pop.
ModelAfter_popping_branch_lists(e, o) ==
    IF o = "get_loop_topology"
    THEN [t \in DOMAIN e \ {"BranchList"} |-> e[t]]
    ELSE e

\* The epJSON data after operation o ran on e.  The operations read it with
\* get, indexing and iteration and build their results in fresh lists and
\* dicts; none assigns into it and none keeps anything on self.
ModelAfter(e, o) == e

(***************************************************************************)
(* The models the calls are made on.  A model is built from a record of    *)
(* choices; each family of initial states varies some choices of the base  *)
(* model over small sets.                                                  *)
(***************************************************************************)

MaxBranchRefs == 2      \* branch references of the BranchList "BL"
MaxComponents == 2      \* components of the Branch "B1"
MaxConnectors == 2      \* connector_{i} entries of the ConnectorList "CL"
MaxIndex == 2           \* numbered fields of a scanned object, besides the alias
MaxOverrun == 1         \* populated numbered fields beyond max_count
MaxCallsSince == 2      \* calls counted since the remembered query

\* Marks, in a choice, a field left out of the object or a type left out of ep.
Absent == "<absent>"

\* The attribute map (or ep itself) holding the present ones of <<key, present, value>>.
Fields(triples) ==
    [k \in {triples[i][1] : i \in {j \in 1..Len(triples) : triples[j][2]}} |->
        triples[CHOOSE i \in 1..Len(triples) : triples[i][1] = k /\ triples[i][2]][3]]
StrField(key, choice) == <<key, choice # Absent, choice>>
Entry(n, a) == [name |-> n, attrs |-> a]

\* All sequences over S of length at most n.
RECURSIVE SeqsUpTo(_, _)
SeqsUpTo(S, n) ==
    IF n = 0 THEN {<<>>}
    ELSE SeqsUpTo(S, n - 1) \cup {Append(q, x) : q \in {r \in SeqsUpTo(S, n - 1) : Len(r) = n - 1}, x \in S}

TypeSplitter == <<"C","o","n","n","e","c","t","o","r",":","S","p","l","i","t","t","e","r">>
TypeSplitterUpper == <<"C","O","N","N","E","C","T","O","R",":","S","P","L","I","T","T","E","R">>
TypeMixer == <<"C","o","n","n","e","c","t","o","r",":","M","i","x","e","r">>
TypePipe == <<"P","i","p","e",":","A","d","i","a","b","a","t","i","c">>
ConnectorTypes == <<TypeSplitter, TypeSplitterUpper, TypeMixer, TypePipe>>

Comp(t, n, i, o) ==
    [component_object_type |-> t, component_name |-> n,
     component_inlet_node_name |-> i, component_outlet_node_name |-> o]
CompPipe == Comp("Pipe:Adiabatic", "P1", "N1", "N2")
CompPump == Comp("Pump:VariableSpeed", "PU1", "N2", "N3")
CompBoiler == Comp("Boiler:HotWater", "BO1", "N3", "N4")

PlantLoopFull ==
    [plant_side_inlet_node_name |-> "PSI", plant_side_outlet_node_name |-> "PSO",
     demand_side_inlet_node_name |-> "DSI", demand_side_outlet_node_name |-> "DSO",
     plant_side_branch_list_name |-> "BL", demand_side_branch_list_name |-> "BL0",
     plant_side_connector_list_name |-> "CL", demand_side_connector_list_name |-> "DCL"]
CondenserLoopFull ==
    [condenser_side_inlet_node_name |-> "CSI", condenser_side_outlet_node_name |-> "CSO",
     demand_side_inlet_node_name |-> "DSI", demand_side_outlet_node_name |-> "DSO",
     condenser_side_branch_list_name |-> "BL0", demand_side_branch_list_name |-> "BL",
     condenser_side_connector_list_name |-> "DCL", demand_side_connector_list_name |-> "CL"]
AirLoopFull ==
    [supply_side_inlet_node_name |-> "ASI", supply_side_outlet_node_name |-> "ASO",
     demand_side_inlet_node_names |-> "N1", demand_side_outlet_node_names |-> "N5",
     plant_side_branch_list_name |-> "BL", branch_list_name |-> "BL"]

\* A loop object by kind of collection ("PlantLoop", ...) and variant.
LoopObject(type, variant) ==
    IF variant = "empty" THEN <<>>
    ELSE IF variant = "bare" THEN [demand_side_inlet_node_name |-> "DSI"]
    ELSE IF type = "PlantLoop" THEN PlantLoopFull
    ELSE IF type = "CondenserLoop" THEN CondenserLoopFull
    ELSE AirLoopFull

ConnectorListFull ==
    [connector_1_name |-> "S1", connector_1_object_type |-> TypeSplitter,
     connector_2_name |-> "M1", connector_2_object_type |-> TypeMixer]

SupplyPathFull(inlet) ==
    Fields(<<StrField("supply_air_path_inlet_node_name", inlet),
             StrField("component_1_name", "ZS1"),
             StrField("component_1_object_type", "AirLoopHVAC:ZoneSplitter"),
             StrField("component_2_name", "ZS9"),
             StrField("component_2_object_type", "AirLoopHVAC:ZoneSplitter")>>)
ReturnPathFull(outlet) ==
    Fields(<<StrField("return_air_path_outlet_node_name", outlet),
             StrField("component_name", "RP1"),
             StrField("component_object_type", "AirLoopHVAC:ReturnPlenum"),
             StrField("component_2_name", "ZM1"),
             StrField("component_2_object_type", "AirLoopHVAC:ZoneMixer")>>)

ZoneSplitterFull ==
    [inlet_node_name |-> "N1", outlet_1_node_name |-> "N2",
     outlet_2_node_name |-> "N3", outlet_3_node_name |-> "N2"]

SplitterFull ==
    [inlet_branch_name |-> "B1",
     branches |-> <<[outlet_branch_name |-> "B2"], [outlet_branch_name |-> "B3"]>>]
MixerFull ==
    [outlet_branch_name |-> "B4",
     branches |-> <<[inlet_branch_name |-> "B2"], [inlet_branch_name |-> "B3"]>>]

ZoneMixerFull ==
    [outlet_node_name |-> "N5", inlet_1_node_name |-> "N6", inlet_2_node_name |-> "N7"]
ReturnPlenumFull ==
    [zone_name |-> "Plenum", zone_node_name |-> "PN",
     outlet_node_name |-> "N6", inlet_node_name |-> "N8"]

TerminalFull ==
    [air_inlet_node_name |-> "N2", air_outlet_node_name |-> "Z1 In", zone_name |-> "Z1"]

\* The choices of the base model.
Base ==
    [plant |-> <<Entry("L1", PlantLoopFull)>>,
     condenser |-> <<Entry("L2", CondenserLoopFull)>>,
     air |-> <<Entry("L3", AirLoopFull)>>,
     plant_present |-> TRUE, condenser_present |-> TRUE, air_present |-> TRUE,
     branch_refs |-> <<"B1", "B2">>,
     b1_components |-> <<CompPipe>>,
     connector_list |-> ConnectorListFull,
     splitter |-> SplitterFull,
     mixer |-> MixerFull,
     supply_paths |-> <<Entry("SP1", SupplyPathFull("N1"))>>,
     return_paths |-> <<Entry("RP1", ReturnPathFull("N5"))>>,
     zone_splitters |-> <<Entry("ZS1", ZoneSplitterFull)>>,
     zone_mixers |-> <<Entry("ZM1", ZoneMixerFull)>>,
     return_plenums |-> <<Entry("RP1", ReturnPlenumFull)>>,
     terminal |-> TerminalFull]

Model(c) ==
    Fields(<<
        <<"PlantLoop", c.plant_present, c.plant>>,
        <<"CondenserLoop", c.condenser_present, c.condenser>>,
        <<"AirLoopHVAC", c.air_present, c.air>>,
        <<"BranchList", TRUE,
            <<Entry("BL0", [branches |-> BranchRefs(<<"B2">>)]),
              Entry("BL", [branches |-> BranchRefs(c.branch_refs)])>>>>,
        <<"Branch", TRUE,
            <<Entry("B1", [components |-> c.b1_components]),
              Entry("B2", [components |-> <<CompPump, CompBoiler>>])>>>>,
        <<"ConnectorList", TRUE,
            <<Entry("DCL", ConnectorListFull), Entry("CL", c.connector_list)>>>>,
        <<"Connector:Splitter", TRUE,
            <<Entry("S1", c.splitter)>>>>,
        <<"Connector:Mixer", TRUE,
            <<Entry("M1", c.mixer)>>>>,
        <<"AirLoopHVAC:SupplyPath", TRUE, c.supply_paths>>,
        <<"AirLoopHVAC:ReturnPath", TRUE, c.return_paths>>,
        <<"AirLoopHVAC:ZoneSplitter", TRUE, c.zone_splitters>>,
        <<"AirLoopHVAC:ZoneMixer", TRUE, c.zone_mixers>>,
        <<"AirLoopHVAC:ReturnPlenum", TRUE, c.return_plenums>>,
        <<"AirTerminal:SingleDuct:VAV:Reheat", TRUE, <<Entry("T1", c.terminal)>>>>,
        <<"ZoneHVAC:IdealLoadsAirSystem", TRUE,
            <<Entry("T2", [zone_supply_air_node_name |-> "N3"])>>>>,
        <<"Zone", TRUE, <<Entry("Z1", <<>>)>>>>
    >>)

\* Values and fields of numbered patterns.
NameValue(i) == "C" \o ToString(i)
TypeValue(i) == "T" \o ToString(i)
NodeValue(i) == "N" \o ToString(i)

\* For each index 0..n (0 is the alias) one of 0 (left out), 1 (empty), 2 (populated).
FieldChoices(n) == [0..n -> 0..2]
FieldName(p, i) == IF i = 0 THEN AltField(p) ELSE NumberedField(p, i)
ChosenFields(p, choice, Value(_)) ==
    [k \in {FieldName(p, i) : i \in {j \in DOMAIN choice : choice[j] # 0}} |->
        LET i == CHOOSE j \in DOMAIN choice : FieldName(p, j) = k
        IN  IF choice[i] = 1 THEN "" ELSE Value(i)]

\* Fields 1..n of pattern p populated, field `gap` (if in 1..n) left out.
Run(p, n, gap, Value(_)) ==
    [k \in {NumberedField(p, i) : i \in (1..n) \ {gap}} |->
        Value(CHOOSE i \in 1..n : NumberedField(p, i) = k)]

\* Loop collections: which of the names L1, L2 each collection holds, in which
\* order, with which object for L2; a collection may be missing from ep.
LoopOrders == {<<>>, <<"L1">>, <<"L2">>, <<"L1", "L2">>, <<"L2", "L1">>}
LoopVariants == {"empty", "bare", "full"}
LoopColl(type, order, variant) ==
    [i \in 1..Len(order) |->
        Entry(order[i], LoopObject(type, IF order[i] = "L2" THEN variant ELSE "full"))]

InitLoops ==
    \E po \in LoopOrders, co \in LoopOrders, ao \in LoopOrders, v \in LoopVariants,
       pp \in BOOLEAN, cp \in BOOLEAN, ap \in BOOLEAN :
        /\ (~pp => po = <<>>) /\ (~cp => co = <<>>) /\ (~ap => ao = <<>>)
        /\ ep = Model([Base EXCEPT !.plant = LoopColl("PlantLoop", po, v),
                                   !.condenser = LoopColl("CondenserLoop", co, v),
                                   !.air = LoopColl("AirLoopHVAC", ao, v),
                                   !.plant_present = pp,
                                   !.condenser_present = cp,
                                   !.air_present = ap])

InitBranches ==
    \E refs \in SeqsUpTo({"B1", "B2", "B9"}, MaxBranchRefs),
       comps \in SeqsUpTo({CompPipe, CompPump}, MaxComponents) :
        ep = Model([Base EXCEPT !.branch_refs = refs, !.b1_components = comps])

\* The entries connector_1 .. connector_n of a ConnectorList, each name one of
\* S1, M1 or left out and each type one of ConnectorTypes or left out (0),
\* followed by an optional name with no type.
RECURSIVE ConnectorTriples(_, _, _)
ConnectorTriples(names, types, i) ==
    IF i > Len(names) THEN <<>>
    ELSE <<StrField("connector_" \o ToString(i) \o "_name", names[i]),
           <<"connector_" \o ToString(i) \o "_object_type", types[i] # 0,
             IF types[i] = 0 THEN <<>> ELSE ConnectorTypes[types[i]]>>>>
         \o ConnectorTriples(names, types, i + 1)

InitConnectors ==
    \E n \in 0..MaxConnectors :
    \E names \in [1..n -> {Absent, "S1", "M1"}],
       types \in [1..n -> 0..Len(ConnectorTypes)],
       extra \in {Absent, "S1"} :
        ep = Model([Base EXCEPT !.connector_list =
                 Fields(ConnectorTriples(names, types, 1)
                        \o <<StrField("connector_" \o ToString(n + 1) \o "_name", extra)>>)])

\* Air loop L3 and the SupplyPath / ReturnPath objects matched against it.
NodeChoices == {Absent, "", "N1", "n1", "Unknown"}
InitAirPaths ==
    \E din \in NodeChoices \ {"n1"}, dout \in {Absent, "", "N5"},
       sp1 \in NodeChoices, sp2 \in {"N1", "N2"}, rp1 \in {Absent, "", "N5", "n5"} :
        ep = Model([Base EXCEPT
                 !.air = <<Entry("L3", Fields(<<
                     StrField("supply_side_inlet_node_name", "ASI"),
                     StrField("demand_side_inlet_node_names", din),
                     StrField("demand_side_outlet_node_names", dout)>>))>>,
                 !.supply_paths = <<Entry("SP1", SupplyPathFull(sp1)),
                                    Entry("SP2", SupplyPathFull(sp2))>>,
                 !.return_paths = <<Entry("RP1", ReturnPathFull(rp1))>>])

\* The inlet-node aliases of the terminal unit T1.
AliasChoices == {Absent, "", "N2", "N3"}
InitTerminals ==
    \E a1 \in AliasChoices, a2 \in AliasChoices, a3 \in AliasChoices, a4 \in AliasChoices,
       zn \in {Absent, "Z1"} :
        ep = Model([Base EXCEPT !.terminal = Fields(<<
                 StrField("air_inlet_node_name", a1),
                 StrField("air_inlet_node", a2),
                 StrField("supply_air_inlet_node_name", a3),
                 StrField("zone_supply_air_node_name", a4),
                 StrField("zone_name", zn)>>)])

\* A SupplyPath with the given inlet node and <<name, type>> components.
PathWith(inlet, comps) ==
    [supply_air_path_inlet_node_name |-> inlet]
    @@ [k \in {NumberedField(ComponentNamePattern, i) : i \in 1..Len(comps)} |->
            comps[CHOOSE i \in 1..Len(comps) : NumberedField(ComponentNamePattern, i) = k][1]]
    @@ [k \in {NumberedField(ComponentTypePattern, i) : i \in 1..Len(comps)} |->
            comps[CHOOSE i \in 1..Len(comps) : NumberedField(ComponentTypePattern, i) = k][2]]

PathComponentChoices ==
    {<<"ZS1", "AirLoopHVAC:ZoneSplitter">>, <<"ZS2", "AirLoopHVAC:ZoneSplitter">>,
     <<"ZS9", "AirLoopHVAC:ZoneSplitter">>, <<"ZS1", "AirLoopHVAC:ZoneMixer">>}

\* The zone splitter ZS1 with its alias and its outlets 1..MaxIndex+1 each left
\* out, empty or populated, or with a run of outlets that reaches past
\* max_count; or the supply paths SP1, of up to MaxComponents components, and
\* SP2 of the same loop over the splitters ZS2 and ZS1.
InitSplitters ==
    \/ \E nodes \in FieldChoices(MaxIndex + 1), inlet \in {Absent, "N1"} :
        ep = Model([Base EXCEPT !.zone_splitters =
                 <<Entry("ZS1", ChosenFields(OutletNodePattern, nodes, NodeValue)
                                @@ Fields(<<StrField("inlet_node_name", inlet)>>))>>])
    \/ \E n \in max_count..(max_count + MaxOverrun) :
        ep = Model([Base EXCEPT !.zone_splitters =
                 <<Entry("ZS1", Run(OutletNodePattern, n, 0, NodeValue))>>])
    \/ \E comps \in SeqsUpTo(PathComponentChoices, MaxComponents) :
        ep = Model([Base EXCEPT
                 !.zone_splitters = <<Entry("ZS2", [inlet_node_name |-> "N1",
                                                    outlet_1_node_name |-> "N3"]),
                                      Entry("ZS1", ZoneSplitterFull)>>,
                 !.supply_paths = <<Entry("SP1", PathWith("N1", comps)),
                                    Entry("SP2", PathWith("N1",
                                        <<<<"ZS2", "AirLoopHVAC:ZoneSplitter">>>>))>>])

\* A ReturnPath with the given outlet node and <<name, type>> components.
ReturnPathWith(outlet, comps) ==
    [return_air_path_outlet_node_name |-> outlet]
    @@ [k \in {NumberedField(ComponentNamePattern, i) : i \in 1..Len(comps)} |->
            comps[CHOOSE i \in 1..Len(comps) : NumberedField(ComponentNamePattern, i) = k][1]]
    @@ [k \in {NumberedField(ComponentTypePattern, i) : i \in 1..Len(comps)} |->
            comps[CHOOSE i \in 1..Len(comps) : NumberedField(ComponentTypePattern, i) = k][2]]

ReturnComponentChoices ==
    {<<"ZM1", "AirLoopHVAC:ZoneMixer">>, <<"RP1", "AirLoopHVAC:ReturnPlenum">>,
     <<"X1", "AirLoopHVAC:ZoneMixer">>, <<"X1", "AirLoopHVAC:ReturnPlenum">>,
     <<"RP1", "AirLoopHVAC:ZoneMixer">>, <<"ZM1", "AirLoopHVAC:ReturnPlenum">>,
     <<"ZM1", "Fan:OnOff">>}

\* The return paths RP1, of up to MaxComponents components, and RP2 (over the
\* mixer ZM1) of the loop L3; X1 names both a zone mixer and a return plenum,
\* ZM1 a mixer only and RP1 a plenum only; the plenum X1 holds all of its
\* fields or none.
InitReturnPaths ==
    \E comps \in SeqsUpTo(ReturnComponentChoices, MaxComponents), bare \in BOOLEAN :
        ep = Model([Base EXCEPT
                 !.zone_mixers = <<Entry("ZM1", ZoneMixerFull),
                                   Entry("X1", [outlet_node_name |-> "N5",
                                                inlet_node_name |-> "N9"])>>,
                 !.return_plenums =
                     <<Entry("X1", IF bare THEN <<>>
                                   ELSE [zone_name |-> "Attic", zone_node_name |-> "AN",
                                         outlet_node_name |-> "N5",
                                         induced_air_outlet_node_or_nodelist_name |-> "IA",
                                         inlet_1_node_name |-> "N6"]),
                       Entry("RP1", ReturnPlenumFull)>>,
                 !.return_paths = <<Entry("RP1", ReturnPathWith("N5", comps)),
                                    Entry("RP2", ReturnPathWith("N5",
                                        <<<<"ZM1", "AirLoopHVAC:ZoneMixer">>>>))>>])

\* The fields of a Plant or Condenser loop object by prefix; each group holds
\* its own node names and names its own branch list and connector list.
PlantSideFields ==
    [plant_side_inlet_node_name |-> "PSI", plant_side_outlet_node_name |-> "PSO",
     plant_side_branch_list_name |-> "BL0", plant_side_connector_list_name |-> "DCL"]
CondenserSideFields ==
    [condenser_side_inlet_node_name |-> "CSI", condenser_side_outlet_node_name |-> "CSO",
     condenser_side_branch_list_name |-> "BL", condenser_side_connector_list_name |-> "CL"]
SupplySideFields ==
    [supply_side_inlet_node_name |-> "SSI", supply_side_outlet_node_name |-> "SSO",
     supply_side_branch_list_name |-> "BL9", supply_side_connector_list_name |-> "CL9"]
DemandSideFields ==
    [demand_side_inlet_node_name |-> "DSI", demand_side_outlet_node_name |-> "DSO",
     demand_side_branch_list_name |-> "BL", demand_side_connector_list_name |-> "CL"]

\* L1 is a PlantLoop or a CondenserLoop whose object holds any of the four
\* groups of fields; the list BL names the branch B1 alone, of one component,
\* and the list CL the mixer M1 alone.
InitKinds ==
    \E type \in {"PlantLoop", "CondenserLoop"},
       ps \in BOOLEAN, cs \in BOOLEAN, ss \in BOOLEAN, ds \in BOOLEAN :
        LET obj == (IF ps THEN PlantSideFields ELSE <<>>)
                   @@ (IF cs THEN CondenserSideFields ELSE <<>>)
                   @@ (IF ss THEN SupplySideFields ELSE <<>>)
                   @@ (IF ds THEN DemandSideFields ELSE <<>>)
        IN  ep = Model([Base EXCEPT
                     !.plant = IF type = "PlantLoop" THEN <<Entry("L1", obj)>> ELSE <<>>,
                     !.condenser = IF type = "CondenserLoop" THEN <<Entry("L1", obj)>> ELSE <<>>,
                     !.branch_refs = <<"B1">>,
                     !.connector_list = [connector_1_name |-> "M1",
                                         connector_1_object_type |-> TypeMixer]])

\* The Connector:Splitter S1 and the Connector:Mixer M1: the single-branch
\* field left out or present, the branches field left out or a sequence of up
\* to MaxConnectors records, each holding the outlet or the inlet field (the
\* mixer's records hold the opposite field of the splitter's); the list CL
\* names S1 (type in upper case) and then M1.
BranchRecordChoices ==
    {[outlet_branch_name |-> "B2"], [outlet_branch_name |-> "B3"],
     [inlet_branch_name |-> "B2"], [inlet_branch_name |-> "B5"]}
Mirrored(rec) ==
    IF Has(rec, "outlet_branch_name") THEN [inlet_branch_name |-> rec["outlet_branch_name"]]
    ELSE [outlet_branch_name |-> rec["inlet_branch_name"]]
InitConnectorObjects ==
    \E single \in BOOLEAN, has_branches \in BOOLEAN,
       recs \in SeqsUpTo(BranchRecordChoices, MaxConnectors) :
        /\ (~has_branches => recs = <<>>)
        /\ ep = Model([Base EXCEPT
                 !.splitter = (IF single THEN [inlet_branch_name |-> "B1"] ELSE <<>>)
                              @@ (IF has_branches THEN [branches |-> recs] ELSE <<>>),
                 !.mixer = (IF single THEN [outlet_branch_name |-> "B4"] ELSE <<>>)
                           @@ (IF has_branches
                               THEN [branches |-> [j \in 1..Len(recs) |-> Mirrored(recs[j])]]
                               ELSE <<>>),
                 !.connector_list =
                     [connector_1_name |-> "S1", connector_1_object_type |-> TypeSplitterUpper,
                      connector_2_name |-> "M1", connector_2_object_type |-> TypeMixer]])

NoCall == Ret(<<>>)
NoEarlier == PyNone

Init ==
    /\ \/ InitLoops \/ InitBranches \/ InitConnectors
       \/ InitAirPaths \/ InitTerminals \/ InitSplitters \/ InitKinds
       \/ InitConnectorObjects \/ InitReturnPaths
    /\ obj_data = <<>>
    /\ op = "init"
    /\ arg = ""
    /\ result = NoCall
    /\ earlier = NoEarlier

(***************************************************************************)
(* The calls.  Arguments are the names the models use and one they do not. *)
(***************************************************************************)
LoopNames == {"L1", "L2", "L3", "L9"}
BranchListNames == {"BL", "BL0", "BL9"}
ConnectorListNames == {"CL", "DCL", "CL9"}
NodeNames == {"N1", "N2", "N3", "n2", "Unknown"}

\* A call is made when the previous one's result has been handed back.  The
\* history counts the calls made since the remembered query, up to MaxCallsSince.
Call(o, a, r) ==
    /\ op = "init"
    /\ op' = o
    /\ arg' = a
    /\ result' = r
    /\ ep' = ModelAfter(ep, o)
    /\ earlier' = IF earlier.none \/ earlier.v.calls = MaxCallsSince THEN earlier
                  ELSE Some([earlier.v EXCEPT !.calls = @ + 1])
    /\ UNCHANGED obj_data

DiscoverHvacLoops == Call("discover_hvac_loops", "", discover_hvac_loops(ep))

GetLoopTopology ==
    \E loop_name \in LoopNames :
        Call("get_loop_topology", loop_name, get_loop_topology(ep, loop_name))

GetBranchesFromList ==
    \E n \in BranchListNames : \E a \in {PyStr(n), PyTuple1(n)} :
        Call("get_branches_from_list", a, get_branches_from_list(ep, a))

GetConnectorsFromList ==
    \E n \in ConnectorListNames :
        Call("get_connectors_from_list", n, get_connectors_from_list(ep, n))

GetZoneEquipmentForNode ==
    \E node \in NodeNames :
        Call("get_zone_equipment_for_node", node, Ret(get_zone_equipment_for_node(ep, node)))

ToolGetLoopTopology ==
    \E loop_name \in LoopNames :
        Call("tool_get_loop_topology", loop_name, Ret(tool_get_loop_topology(ep, loop_name)))

\* The caller takes the result; nothing of the call is kept.
Discard ==
    /\ op # "init"
    /\ op' = "init"
    /\ arg' = ""
    /\ result' = NoCall
    /\ UNCHANGED <<ep, obj_data, earlier>>

Next ==
    \/ DiscoverHvacLoops
    \/ GetLoopTopology
    \/ GetBranchesFromList
    \/ GetConnectorsFromList
    \/ GetZoneEquipmentForNode
    \/ ToolGetLoopTopology
    \/ Discard

Spec == Init /\ [][Next]_vars

(***************************************************************************)
(* Sequences of queries on one model, with the history of one earlier      *)
(* topology query: the caller may remember a query's outcome when it takes *)
(* the result.                                                             *)
(***************************************************************************)
InitQueries ==
    /\ InitLoops \/ InitBranches
    /\ obj_data = <<>>
    /\ op = "init"
    /\ arg = ""
    /\ result = NoCall
    /\ earlier = NoEarlier

Remember ==
    /\ op = "get_loop_topology"
    /\ earlier' = Some([loop_name |-> arg, outcome |-> result, calls |-> 0])
    /\ op' = "init"
    /\ arg' = ""
    /\ result' = NoCall
    /\ UNCHANGED <<ep, obj_data>>

NextQueries ==
    \/ DiscoverHvacLoops
    \/ GetLoopTopology
    \/ Remember
    \/ Discard

SpecQueries == InitQueries /\ [][NextQueries]_vars

(***************************************************************************)
(* The numbered-field scans on their own: obj_data is any attribute map    *)
(* with the alias and the fields of index 1..MaxIndex of the component     *)
(* patterns, or of a node pattern, each left out, empty or populated; or a *)
(* contiguous run of populated fields that reaches past max_count.         *)
(***************************************************************************)
InitScanComponents ==
    \E names \in FieldChoices(MaxIndex), types \in FieldChoices(MaxIndex) :
        obj_data = ChosenFields(ComponentNamePattern, names, NameValue)
                   @@ ChosenFields(ComponentTypePattern, types, TypeValue)

InitScanNodes ==
    \E p \in {OutletNodePattern, InletNodePattern}, nodes \in FieldChoices(MaxIndex + 1) :
        obj_data = ChosenFields(p, nodes, NodeValue)

InitScanRuns ==
    \E n \in (max_count - 1)..(max_count + MaxOverrun), gap \in {0, 1, max_count} :
        \/ obj_data = Run(OutletNodePattern, n, gap, NodeValue)
        \/ obj_data = Run(ComponentNamePattern, n, gap, NameValue)
                      @@ Run(ComponentTypePattern, n, 0, TypeValue)

InitScan ==
    /\ InitScanComponents \/ InitScanNodes \/ InitScanRuns
    /\ ep = <<>>
    /\ op = "init"
    /\ arg = ""
    /\ result = NoCall
    /\ earlier = NoEarlier

IterNumberedComponents ==
    Call("iter_numbered_components", "",
         Ret(iter_numbered_components(obj_data, ComponentNamePattern,
                 ComponentTypePattern, max_count)))

IterNumberedNodes ==
    \E p \in {OutletNodePattern, InletNodePattern} :
        Call("iter_numbered_nodes", p, Ret(iter_numbered_nodes(obj_data, p, max_count)))

NextScan ==
    \/ IterNumberedComponents
    \/ IterNumberedNodes
    \/ Discard

SpecScan == InitScan /\ [][NextScan]_vars

(***************************************************************************)
(* Properties.                                                             *)
(***************************************************************************)

LoopCollections == {"PlantLoop", "CondenserLoop", "AirLoopHVAC"}
IsLoopKey(e, n) ==
    \E t \in LoopCollections : t \in DOMAIN e /\ \E i \in 1..Len(e[t]) : e[t][i].name = n

\* C1: get_loop_topology called with a loop name that is a key of none of
\* PlantLoop, CondenserLoop and AirLoopHVAC ends in an error (the not-found
\* ValueError, re-raised as RuntimeError); it returns no topology value.
C1_AbsentLoopIsError ==
    (op = "get_loop_topology" /\ ~IsLoopKey(ep, arg)) =>
        /\ result.raised
        /\ result.exc = "RuntimeError"
        /\ result.cause = "ValueError"

\* A query for a name no collection holds, on a model that has loops, has failed.
C1_Witness ==
    /\ op = "get_loop_topology"
    /\ ~IsLoopKey(ep, arg)
    /\ Len(Coll(ep, "PlantLoop")) > 0
    /\ Len(Coll(ep, "AirLoopHVAC")) > 0
    /\ result.raised

\* C2: for a BranchList whose every referenced Branch exists,
\* _get_branches_from_list returns exactly one record per reference, in the
\* declaration order of the references, and each record's components are the
\* Branch's component entries (type, name, inlet node, outlet node) in their
\* declaration order.
C2_BranchesInDeclarationOrder ==
    (op = "get_branches_from_list" /\ ~arg.tuple
        /\ InColl(Coll(ep, "BranchList"), arg.s)) =>
        LET refs == Lookup(Coll(ep, "BranchList"), arg.s)["branches"]
            Comps(i) == Lookup(Coll(ep, "Branch"), refs[i]["branch_name"])["components"]
        IN  (\A i \in 1..Len(refs) : InColl(Coll(ep, "Branch"), refs[i]["branch_name"])) =>
                /\ ~result.raised
                /\ Len(result.val) = Len(refs)
                /\ \A i \in 1..Len(refs) :
                    /\ result.val[i].name = refs[i]["branch_name"]
                    /\ Len(result.val[i].components) = Len(Comps(i))
                    /\ \A j \in 1..Len(Comps(i)) :
                        result.val[i].components[j] =
                            [type |-> Comps(i)[j]["component_object_type"],
                             name |-> Comps(i)[j]["component_name"],
                             inlet_node |-> Comps(i)[j]["component_inlet_node_name"],
                             outlet_node |-> Comps(i)[j]["component_outlet_node_name"]]

\* The list "BL" names B2 then B1 (the reverse of the Branch collection's
\* order), B1 has two components, and both branches were returned.
C2_Witness ==
    /\ op = "get_branches_from_list"
    /\ ~arg.tuple /\ arg.s = "BL"
    /\ ~result.raised
    /\ Len(result.val) = 2
    /\ result.val[1].name = "B2"
    /\ result.val[2].name = "B1"
    /\ Len(result.val[2].components) = 2

(***************************************************************************)
(* Connector lists.                                                        *)
(***************************************************************************)
ConnectorNameKey(i) == "connector_" \o ToString(i) \o "_name"
ConnectorTypeKey(i) == "connector_" \o ToString(i) \o "_object_type"
EndsInSplitter(t) == EndsWith(Lower(t), SplitterSuffix)
EndsInMixer(t) == EndsWith(Lower(t), MixerSuffix)
IsSplitterRecord(r) == DOMAIN r = {"name", "type", "inlet_branch", "outlet_branches"}
IsMixerRecord(r) == DOMAIN r = {"name", "type", "inlet_branches", "outlet_branch"}

\* Record r describes the i-th connector declared in the ConnectorList `data`.
DescribesEntry(r, data, i) ==
    /\ Has(data, ConnectorNameKey(i)) /\ Has(data, ConnectorTypeKey(i))
    /\ r.name = data[ConnectorNameKey(i)]
    /\ r.type = data[ConnectorTypeKey(i)]
    /\ IsSplitterRecord(r) \/ IsMixerRecord(r)

\* The keys of `data` are exactly connector_i_name, connector_i_object_type, i = 1..n.
PairedKeys(data, n) ==
    DOMAIN data = {ConnectorNameKey(i) : i \in 1..n} \cup {ConnectorTypeKey(i) : i \in 1..n}

KeyCount(data) == Cardinality(DOMAIN data)

\* C3 as claimed: for any ConnectorList whose attribute map has an even number
\* of keys 2n, _get_connectors_from_list returns exactly n records, the i-th a
\* Splitter or Mixer record describing the i-th declared connector.
C3_EvenListGivesNConnectors ==
    (op = "get_connectors_from_list" /\ InColl(Coll(ep, "ConnectorList"), arg)) =>
        LET data == Lookup(Coll(ep, "ConnectorList"), arg)
        IN  KeyCount(data) % 2 = 0 =>
                /\ ~result.raised
                /\ ~result.val.none
                /\ Len(result.val.v) = KeyCount(data) \div 2
                /\ \A i \in 1..Len(result.val.v) : DescribesEntry(result.val.v[i], data, i)

\* The part of C3 the code does satisfy: for a ConnectorList whose keys are
\* exactly connector_i_name and connector_i_object_type for i = 1..n and whose
\* every type ends, case-insensitively, in 'splitter' or 'mixer',
\* _get_connectors_from_list returns exactly n records; the i-th describes the
\* i-th declared connector and is a Splitter record when its type ends in
\* 'splitter', a Mixer record otherwise.
C3_PairedListGivesNConnectors ==
    (op = "get_connectors_from_list" /\ InColl(Coll(ep, "ConnectorList"), arg)) =>
        LET data == Lookup(Coll(ep, "ConnectorList"), arg)
            n == KeyCount(data) \div 2
        IN  (/\ KeyCount(data) % 2 = 0
             /\ PairedKeys(data, n)
             /\ \A i \in 1..n : EndsInSplitter(data[ConnectorTypeKey(i)])
                                \/ EndsInMixer(data[ConnectorTypeKey(i)])) =>
                /\ ~result.raised
                /\ ~result.val.none
                /\ Len(result.val.v) = n
                /\ \A i \in 1..n :
                    /\ DescribesEntry(result.val.v[i], data, i)
                    /\ IF EndsInSplitter(data[ConnectorTypeKey(i)])
                       THEN IsSplitterRecord(result.val.v[i])
                       ELSE IsMixerRecord(result.val.v[i])

\* The list "CL" declares an upper-case splitter type and then a mixer, and
\* both records were returned.
C3_Witness ==
    /\ op = "get_connectors_from_list"
    /\ arg = "CL"
    /\ ~result.raised
    /\ ~result.val.none
    /\ Len(result.val.v) = 2
    /\ result.val.v[1].type = TypeSplitterUpper
    /\ IsSplitterRecord(result.val.v[1])
    /\ IsMixerRecord(result.val.v[2])

IsOddList(e, n) ==
    /\ InColl(Coll(e, "ConnectorList"), n)
    /\ KeyCount(Lookup(Coll(e, "ConnectorList"), n)) % 2 = 1

\* The model without the ConnectorList named n.
WithoutConnectorList(e, n) ==
    [e EXCEPT !["ConnectorList"] = SelectSeq(@, LAMBDA x : x.name # n)]

SupplyConnectorListField(loop_type) ==
    IF loop_type = "PlantLoop" THEN "plant_side_connector_list_name"
    ELSE "condenser_side_connector_list_name"

\* C4: for a ConnectorList with an odd number of keys,
\* _get_connectors_from_list yields no connector record at all (it returns None,
\* never a prefix of the list, and raises nothing); a get_loop_topology query
\* whose loop references that list ends exactly as it would on the model
\* without that list, and when it returns a topology that side's connector
\* sequence is None: the failure is confined to the list.
C4_OddListYieldsNothing ==
    /\ (op = "get_connectors_from_list" /\ IsOddList(ep, arg)) =>
            (~result.raised /\ result.val.none)
    /\ (op = "get_loop_topology" /\ ~FindLoop(ep, arg).none) =>
            LET found == FindLoop(ep, arg).v
                supply == Get(found.loop_obj, SupplyConnectorListField(found.loop_type), "")
                demand == Get(found.loop_obj, "demand_side_connector_list_name", "")
            IN  (found.loop_type # "AirLoopHVAC" /\ DOMAIN found.loop_obj # {}) =>
                    /\ IsOddList(ep, supply) =>
                        /\ result = get_loop_topology(WithoutConnectorList(ep, supply), arg)
                        /\ ~result.raised => result.val.supply_side.connector_lists.none
                    /\ IsOddList(ep, demand) =>
                        /\ result = get_loop_topology(WithoutConnectorList(ep, demand), arg)
                        /\ ~result.raised => result.val.demand_side.connector_lists.none

\* The supply connector list of plant loop L1 has three keys, and the query
\* returned a topology whose supply side has no connector sequence and whose
\* demand side has its two connectors.
C4_Witness ==
    /\ op = "get_loop_topology"
    /\ arg = "L1"
    /\ IsOddList(ep, "CL")
    /\ KeyCount(Lookup(Coll(ep, "ConnectorList"), "CL")) = 3
    /\ ~result.raised
    /\ result.val.loop_type = "PlantLoop"
    /\ result.val.supply_side.connector_lists.none
    /\ ~result.val.demand_side.connector_lists.none
    /\ Len(result.val.demand_side.connector_lists.v) = 2

\* C9 as claimed: when an entry of a ConnectorList (with paired keys) has a
\* type that ends in neither 'splitter' nor 'mixer', resolving the list raises
\* an error, at whatever position the entry stands; no record is emitted for it.
C9_UnknownTypeRaises ==
    (op = "get_connectors_from_list" /\ InColl(Coll(ep, "ConnectorList"), arg)) =>
        LET data == Lookup(Coll(ep, "ConnectorList"), arg)
            n == KeyCount(data) \div 2
        IN  (/\ KeyCount(data) % 2 = 0
             /\ PairedKeys(data, n)
             /\ \E i \in 1..n : /\ ~EndsInSplitter(data[ConnectorTypeKey(i)])
                                /\ ~EndsInMixer(data[ConnectorTypeKey(i)])) =>
                result.raised

(***************************************************************************)
(* Numbered-field scans.                                                   *)
(***************************************************************************)
Min(a, b) == IF a <= b THEN a ELSE b

\* The entry of index i of pattern p in attribute map d: its numbered field
\* when populated, for index 1 otherwise its unnumbered alias; None when
\* neither is populated.
IndexValue(d, p, i) ==
    IF Populated(d, NumberedField(p, i)) THEN Some(d[NumberedField(p, i)])
    ELSE IF i = 1 /\ Populated(d, AltField(p)) THEN Some(d[AltField(p)])
    ELSE PyNone
NodePresent(d, p, i) == ~IndexValue(d, p, i).none
ComponentPresent(d, i) ==
    NodePresent(d, ComponentNamePattern, i) /\ NodePresent(d, ComponentTypePattern, i)

\* The smallest index whose entry is absent or empty.
FirstGap(d, Present(_)) ==
    CHOOSE k \in 1..(Cardinality(DOMAIN d) + 1) :
        ~Present(k) /\ \A j \in 1..(k - 1) : Present(j)

\* The entries of indices 1..n, in increasing index order.
NodeEntries(d, p, n) == [i \in 1..n |-> IndexValue(d, p, i).v]
ComponentEntries(d, n) ==
    [i \in 1..n |-> [name |-> IndexValue(d, ComponentNamePattern, i).v,
                     type |-> IndexValue(d, ComponentTypePattern, i).v]]

\* C5 as claimed: both scans list the entries of indices 1, 2, ... in
\* increasing order, and with k the smallest index whose entry is absent or
\* empty the result is exactly the entries of indices 1..k-1, whatever fields
\* of greater index are present.
C5_ScanStopsAtFirstGap ==
    /\ op = "iter_numbered_nodes" =>
        result.val = NodeEntries(obj_data, arg,
            FirstGap(obj_data, LAMBDA i : NodePresent(obj_data, arg, i)) - 1)
    /\ op = "iter_numbered_components" =>
        result.val = ComponentEntries(obj_data,
            FirstGap(obj_data, LAMBDA i : ComponentPresent(obj_data, i)) - 1)

\* C5 as amended: with k the smallest index whose entry is absent or empty
\* (the entry of index 1 being its numbered field or, failing that, its
\* unnumbered alias), the result of either scan is exactly the entries of
\* indices 1..min(k-1, max_count), in increasing index order, whatever fields
\* of index greater than k are present.
C5_ScanStopsAtFirstGapOrCeiling ==
    /\ op = "iter_numbered_nodes" =>
        result.val = NodeEntries(obj_data, arg,
            Min(FirstGap(obj_data, LAMBDA i : NodePresent(obj_data, arg, i)) - 1, max_count))
    /\ op = "iter_numbered_components" =>
        result.val = ComponentEntries(obj_data,
            Min(FirstGap(obj_data, LAMBDA i : ComponentPresent(obj_data, i)) - 1, max_count))

\* A node scan over a map whose index 2 is absent or empty and whose index 3
\* is populated returned the entry of index 1 alone.
C5_Witness ==
    /\ op = "iter_numbered_nodes"
    /\ FirstGap(obj_data, LAMBDA i : NodePresent(obj_data, arg, i)) = 2
    /\ NodePresent(obj_data, arg, 3)
    /\ Len(result.val) = 1

(***************************************************************************)
(* Air loops.                                                              *)
(***************************************************************************)
IsAirTopology == op = "get_loop_topology" /\ ~result.raised /\ result.val.loop_type = "AirLoopHVAC"

\* The names of the objects of collection c that pass Test, in collection order.
NamesWhere(c, Test(_)) ==
    LET kept == SelectSeq(c, Test) IN [i \in 1..Len(kept) |-> kept[i].name]
RecordNames(records) == [i \in 1..Len(records) |-> records[i].name]

\* C6 as claimed: in an air-loop topology an AirLoopHVAC:SupplyPath appears in
\* demand_side.supply_paths iff it has a supply_air_path_inlet_node_name field
\* whose value is exactly equal to the loop's demand-inlet node, and an
\* AirLoopHVAC:ReturnPath appears in demand_side.return_paths iff it has a
\* return_air_path_outlet_node_name field exactly equal to the loop's
\* demand-outlet node; each selected path appears once, in collection order.
C6_PathSelectedIffFieldEqual ==
    IsAirTopology =>
        LET ds == result.val.demand_side
        IN  /\ RecordNames(ds.supply_paths) =
                   NamesWhere(Coll(ep, "AirLoopHVAC:SupplyPath"),
                       LAMBDA x : /\ Has(x.attrs, "supply_air_path_inlet_node_name")
                                  /\ x.attrs["supply_air_path_inlet_node_name"] = ds.inlet_node)
            /\ RecordNames(ds.return_paths) =
                   NamesWhere(Coll(ep, "AirLoopHVAC:ReturnPath"),
                       LAMBDA x : /\ Has(x.attrs, "return_air_path_outlet_node_name")
                                  /\ x.attrs["return_air_path_outlet_node_name"] = ds.outlet_node)

\* C6 as amended: a SupplyPath appears in demand_side.supply_paths iff the
\* value of its supply_air_path_inlet_node_name field, taken as the empty
\* string when the object has no such field, is exactly (case-sensitively)
\* equal to the loop's demand-inlet node; symmetrically for a ReturnPath, its
\* return_air_path_outlet_node_name field and the demand-outlet node; each
\* selected path appears once, in collection order.
C6_PathSelectedIffValueEqual ==
    IsAirTopology =>
        LET ds == result.val.demand_side
        IN  /\ RecordNames(ds.supply_paths) =
                   NamesWhere(Coll(ep, "AirLoopHVAC:SupplyPath"),
                       LAMBDA x : Get(x.attrs, "supply_air_path_inlet_node_name", "")
                                      = ds.inlet_node)
            /\ RecordNames(ds.return_paths) =
                   NamesWhere(Coll(ep, "AirLoopHVAC:ReturnPath"),
                       LAMBDA x : Get(x.attrs, "return_air_path_outlet_node_name", "")
                                      = ds.outlet_node)

\* Of two supply paths, SP1 with inlet node "n1" and SP2 with "N1", the
\* topology of a loop whose demand inlet is "N1" holds SP2 alone; its return
\* path was selected too.
C6_Witness ==
    /\ IsAirTopology
    /\ result.val.demand_side.inlet_node = "N1"
    /\ Len(Coll(ep, "AirLoopHVAC:SupplyPath")) = 2
    /\ Get(Coll(ep, "AirLoopHVAC:SupplyPath")[1].attrs, "supply_air_path_inlet_node_name", "") = "n1"
    /\ RecordNames(result.val.demand_side.supply_paths) = <<"SP2">>
    /\ RecordNames(result.val.demand_side.return_paths) = <<"RP1">>

InletAliases ==
    {"air_inlet_node_name", "air_inlet_node", "supply_air_inlet_node_name",
     "zone_supply_air_node_name"}

\* Record r names an object of the model one of whose inlet aliases is
\* populated and equal to node.
HasAliasEqual(r, node) ==
    /\ InColl(Coll(ep, r.type), r.name)
    /\ \E f \in InletAliases :
           /\ Populated(Lookup(Coll(ep, r.type), r.name), f)
           /\ Lookup(Coll(ep, r.type), r.name)[f] = node

C8_AirLoopSupplyBranchesResolved ==
    IsAirTopology =>
        LET loop_obj == FindLoop(ep, arg).v.loop_obj
        IN  Has(loop_obj, "plant_side_branch_list_name") =>
                LET resolved == get_branches_from_list(ep,
                                    PyStr(loop_obj["plant_side_branch_list_name"]))
                IN  ~resolved.raised /\ result.val.supply_side.branches = resolved.val

\* C10 as claimed: get_loop_topology ends in an error only when the loop name
\* is absent from all three loop collections; for a name that is a key of
\* PlantLoop, CondenserLoop or AirLoopHVAC it returns a topology.
C10_ErrorOnlyWhenAbsent ==
    (op = "get_loop_topology" /\ IsLoopKey(ep, arg)) => ~result.raised

(***************************************************************************)
(* Missing branches and connectors.                                        *)
(***************************************************************************)
BranchListRefs(e, n) == Lookup(Coll(e, "BranchList"), n)["branches"]
RefExists(e, ref) == InColl(Coll(e, "Branch"), ref["branch_name"])

\* The BranchList n exists and names a branch that is no key of Branch.
HasMissingBranch(e, n) ==
    /\ InColl(Coll(e, "BranchList"), n)
    /\ \E i \in 1..Len(BranchListRefs(e, n)) : ~RefExists(e, BranchListRefs(e, n)[i])

\* The record of the existing Branch named n.
BranchRecord(e, n) ==
    LET comps == Lookup(Coll(e, "Branch"), n)["components"]
    IN  [name |-> n,
         components |-> [j \in 1..Len(comps) |->
             [type |-> comps[j]["component_object_type"],
              name |-> comps[j]["component_name"],
              inlet_node |-> comps[j]["component_inlet_node_name"],
              outlet_node |-> comps[j]["component_outlet_node_name"]]]]

\* The records of the existing branches that BranchList n names, in declaration order.
ExistingBranchRecords(e, n) ==
    LET kept == SelectSeq(BranchListRefs(e, n), LAMBDA r : RefExists(e, r))
    IN  [i \in 1..Len(kept) |-> BranchRecord(e, kept[i]["branch_name"])]

\* The model whose BranchList n names only the branches that exist.
WithoutMissingBranches(e, n) ==
    [e EXCEPT !["BranchList"] =
        [i \in 1..Len(@) |->
            IF @[i].name = n
            THEN [@[i] EXCEPT !.attrs["branches"] = SelectSeq(@, LAMBDA r : RefExists(e, r))]
            ELSE @[i]]]

SupplyBranchListField(loop_type) ==
    IF loop_type = "PlantLoop" THEN "plant_side_branch_list_name"
    ELSE "condenser_side_branch_list_name"

\* C11: when a BranchList references a branch name that is no key of the
\* Branch collection, the reference contributes no record:
\* _get_branches_from_list returns the records of the existing referenced
\* branches in declaration order and raises nothing, the side of a Plant or
\* Condenser loop that names the list holds exactly those records, and the
\* query ends as it does on the model whose list names only the existing
\* branches.
C11_MissingBranchOmitted ==
    /\ (op = "get_branches_from_list" /\ ~arg.tuple /\ HasMissingBranch(ep, arg.s)) =>
            (~result.raised /\ result.val = ExistingBranchRecords(ep, arg.s))
    /\ (op = "get_loop_topology" /\ ~FindLoop(ep, arg).none) =>
            LET found == FindLoop(ep, arg).v
                supply == Get(found.loop_obj, SupplyBranchListField(found.loop_type), "")
                demand == Get(found.loop_obj, "demand_side_branch_list_name", "")
            IN  (found.loop_type # "AirLoopHVAC" /\ DOMAIN found.loop_obj # {}) =>
                    /\ HasMissingBranch(ep, supply) =>
                        /\ result = get_loop_topology(WithoutMissingBranches(ep, supply), arg)
                        /\ ~result.raised =>
                            result.val.supply_side.branches = ExistingBranchRecords(ep, supply)
                    /\ HasMissingBranch(ep, demand) =>
                        /\ result = get_loop_topology(WithoutMissingBranches(ep, demand), arg)
                        /\ ~result.raised =>
                            result.val.demand_side.branches = ExistingBranchRecords(ep, demand)

\* The supply branch list of plant loop L1 names the missing B9 and then B1;
\* the query returned a topology whose supply side holds B1 alone.
C11_Witness ==
    /\ op = "get_loop_topology"
    /\ arg = "L1"
    /\ HasMissingBranch(ep, "BL")
    /\ Len(BranchListRefs(ep, "BL")) = 2
    /\ BranchListRefs(ep, "BL")[1]["branch_name"] = "B9"
    /\ ~result.raised
    /\ result.val.loop_type = "PlantLoop"
    /\ Len(result.val.supply_side.branches) = 1
    /\ result.val.supply_side.branches[1].name = "B1"

\* The collection an entry's connector is looked up in, by its type.
ConnectorCollection(t) ==
    IF EndsInSplitter(t) THEN "Connector:Splitter" ELSE "Connector:Mixer"

\* Entry i of the ConnectorList `data` names a connector that exists.
ConnectorExists(e, data, i) ==
    InColl(Coll(e, ConnectorCollection(data[ConnectorTypeKey(i)])), data[ConnectorNameKey(i)])

\* C12 as claimed: a connector that a ConnectorList entry references by name
\* but that is missing from its collection (Connector:Splitter or
\* Connector:Mixer) gets no record: the connector sequence holds one record
\* per entry whose connector exists, in declaration order, and no other.
C12_MissingConnectorOmitted ==
    (op = "get_connectors_from_list" /\ InColl(Coll(ep, "ConnectorList"), arg)) =>
        LET data == Lookup(Coll(ep, "ConnectorList"), arg)
            n == KeyCount(data) \div 2
            existing == SelectSeq([i \in 1..n |-> i], LAMBDA i : ConnectorExists(ep, data, i))
        IN  (/\ KeyCount(data) % 2 = 0
             /\ PairedKeys(data, n)
             /\ \A i \in 1..n : EndsInSplitter(data[ConnectorTypeKey(i)])
                                \/ EndsInMixer(data[ConnectorTypeKey(i)])) =>
                /\ ~result.raised
                /\ ~result.val.none
                /\ Len(result.val.v) = Len(existing)
                /\ \A k \in 1..Len(existing) :
                    DescribesEntry(result.val.v[k], data, existing[k])

(***************************************************************************)
(* Discovery.                                                              *)
(***************************************************************************)
\* The objects of collection t of the model, in collection order; none when
\* the model has no such collection.
ObjectsOf(e, t) == IF t \in DOMAIN e THEN e[t] ELSE <<>>

\* `list` has one entry per object of `objects`, in order, indexed from 1.
ListsEachOnce(list, objects) ==
    /\ Len(list) = Len(objects)
    /\ \A i \in 1..Len(objects) : list[i].name = objects[i].name /\ list[i].index = i

\* C13: discover_hvac_loops reports summary counts equal to the number of
\* objects of the PlantLoop, CondenserLoop and AirLoopHVAC collections (0 for
\* an absent collection), and each per-kind list has exactly one entry per
\* object of its collection, in collection order, with index values 1..n.
C13_DiscoveryCountsAndLists ==
    op = "discover_hvac_loops" =>
        /\ ~result.raised
        /\ result.val.summary.total_plant_loops = Len(ObjectsOf(ep, "PlantLoop"))
        /\ result.val.summary.total_condenser_loops = Len(ObjectsOf(ep, "CondenserLoop"))
        /\ result.val.summary.total_air_loops = Len(ObjectsOf(ep, "AirLoopHVAC"))
        /\ ListsEachOnce(result.val.plant_loops, ObjectsOf(ep, "PlantLoop"))
        /\ ListsEachOnce(result.val.condenser_loops, ObjectsOf(ep, "CondenserLoop"))
        /\ ListsEachOnce(result.val.air_loops, ObjectsOf(ep, "AirLoopHVAC"))

\* A model with one PlantLoop, one CondenserLoop and two AirLoopHVAC objects
\* (L2 before L1) was discovered with counts 1, 1 and 2.
C13_Witness ==
    /\ op = "discover_hvac_loops"
    /\ Len(ObjectsOf(ep, "PlantLoop")) = 1
    /\ Len(ObjectsOf(ep, "CondenserLoop")) = 1
    /\ RecordNames(ObjectsOf(ep, "AirLoopHVAC")) = <<"L2", "L1">>
    /\ result.val.summary.total_plant_loops = 1
    /\ result.val.summary.total_condenser_loops = 1
    /\ result.val.summary.total_air_loops = 2
    /\ result.val.air_loops[2].index = 2

(***************************************************************************)
(* Zone splitters of an air loop.                                          *)
(***************************************************************************)
ZoneSplitterType == "AirLoopHVAC:ZoneSplitter"

\* The zone-splitter components of the paths whose objects exist, in path
\* order then component order.
SplitterRefs(e, paths) ==
    Flatten([p \in 1..Len(paths) |->
        SelectSeq(paths[p].components,
            LAMBDA c : c.type = ZoneSplitterType /\ InColl(Coll(e, ZoneSplitterType), c.name))])

\* The values of the numbered fields 1..m of pattern p, m being the last index
\* of the contiguous run of populated numbered fields.
NumberedRun(d, p) ==
    LET m == FirstGap(d, LAMBDA i : Populated(d, NumberedField(p, i))) - 1
    IN  [i \in 1..m |-> d[NumberedField(p, i)]]

\* The node scan of d over pattern p, as C5 (amended) describes it.
ScannedNodes(d, p) ==
    NodeEntries(d, p, Min(FirstGap(d, LAMBDA i : NodePresent(d, p, i)) - 1, max_count))

\* demand_side.zone_splitters holds one record per reference, in order, whose
\* outlet nodes are Outlets(object).
SplittersExpanded(Outlets(_)) ==
    LET ds == result.val.demand_side
        refs == SplitterRefs(ep, ds.supply_paths)
    IN  /\ Len(ds.zone_splitters) = Len(refs)
        /\ \A k \in 1..Len(refs) :
            LET obj == Lookup(Coll(ep, ZoneSplitterType), refs[k].name)
            IN  ds.zone_splitters[k] =
                    [name |-> refs[k].name,
                     type |-> ZoneSplitterType,
                     inlet_node |-> Get(obj, "inlet_node_name", "Unknown"),
                     outlet_nodes |-> Outlets(obj)]

\* C14 as claimed: in an air-loop topology, for every component of a selected
\* SupplyPath whose type is AirLoopHVAC:ZoneSplitter and whose object exists,
\* demand_side.zone_splitters holds one record, in path order then component
\* order, with the object's inlet_node_name and with outlet_nodes equal to the
\* values of outlet_1_node_name .. outlet_m_node_name, m being the last index
\* of the contiguous populated run.
C14_SplittersExpandedByNumberedRun ==
    IsAirTopology => SplittersExpanded(LAMBDA obj : NumberedRun(obj, OutletNodePattern))

\* C14 as amended: the same, with outlet_nodes equal to the node scan of the
\* object over outlet_{i}_node_name: the entries of indices 1..m, the entry of
\* index 1 being outlet_1_node_name or, when that is absent or empty, the
\* unnumbered outlet_node_name, m being the last index of the contiguous
\* populated run and at most max_count.
C14_SplittersExpandedByNodeScan ==
    IsAirTopology => SplittersExpanded(LAMBDA obj : ScannedNodes(obj, OutletNodePattern))

\* The splitter ZS1 has outlets 1..3 populated ("N1", "N2", "N3") and no
\* fourth, and its record holds these three nodes in index order.
C14_Witness ==
    /\ IsAirTopology
    /\ Len(result.val.demand_side.zone_splitters) = 1
    /\ result.val.demand_side.zone_splitters[1].name = "ZS1"
    /\ result.val.demand_side.zone_splitters[1].outlet_nodes = <<"N1", "N2", "N3">>
    /\ ~Has(Lookup(Coll(ep, ZoneSplitterType), "ZS1"), "outlet_4_node_name")

PatternFields(d, p) ==
    {AltField(p)} \cup {NumberedField(p, i) : i \in 1..(Cardinality(DOMAIN d) + 1)}

\* C17: both numbered-field scans end on every attribute map with a result of
\* at most max_count elements, even when more than max_count contiguous
\* numbered fields are populated, and an attribute map with no field of the
\* pattern yields the empty sequence and no error.
C17_ScansBoundedAndTotal ==
    /\ op = "iter_numbered_nodes" =>
        /\ ~result.raised
        /\ Len(result.val) <= max_count
        /\ (DOMAIN obj_data \cap PatternFields(obj_data, arg) = {}) => result.val = <<>>
    /\ op = "iter_numbered_components" =>
        /\ ~result.raised
        /\ Len(result.val) <= max_count
        /\ (DOMAIN obj_data \cap (PatternFields(obj_data, ComponentNamePattern)
                \cup PatternFields(obj_data, ComponentTypePattern)) = {}) =>
                    result.val = <<>>

\* A component scan over a map whose name and type fields are populated at
\* every index up to max_count + 1 returned max_count entries.
C17_Witness ==
    /\ op = "iter_numbered_components"
    /\ \A i \in 1..(max_count + 1) : ComponentPresent(obj_data, i)
    /\ Len(result.val) = max_count

(***************************************************************************)
(* The kind of a loop.                                                     *)
(***************************************************************************)
KindOrder == <<"PlantLoop", "CondenserLoop", "AirLoopHVAC">>
HoldsLoop(e, t, n) == t \in DOMAIN e /\ \E i \in 1..Len(e[t]) : e[t][i].name = n
KindsHolding(e, n) == {k \in 1..Len(KindOrder) : HoldsLoop(e, KindOrder[k], n)}

\* The first collection, in the order PlantLoop, CondenserLoop, AirLoopHVAC,
\* that holds the name.
FirstKind(e, n) == KindOrder[CHOOSE k \in KindsHolding(e, n) : \A j \in KindsHolding(e, n) : k <= j]

\* The field the supply inlet node of a loop of kind t is read from.
SupplyInletField(t) ==
    IF t = "PlantLoop" THEN "plant_side_inlet_node_name"
    ELSE IF t = "CondenserLoop" THEN "condenser_side_inlet_node_name"
    ELSE "supply_side_inlet_node_name"

\* C18: the kind of a queried loop is decided by collection membership in the
\* order PlantLoop, CondenserLoop, AirLoopHVAC: a returned topology has the
\* loop_type of the first collection that holds the name and is built from
\* that collection's object by that kind's resolver, the air-loop resolver
\* (whose demand side has zone splitters and no connector lists) only for
\* AirLoopHVAC.
C18_FirstCollectionDecidesKind ==
    (op = "get_loop_topology" /\ ~result.raised) =>
        LET t == FirstKind(ep, arg)
            obj == Lookup(ep[t], arg)
        IN  /\ KindsHolding(ep, arg) # {}
            /\ result.val.loop_type = t
            /\ result.val.loop_name = arg
            /\ result.val.supply_side.inlet_node = Get(obj, SupplyInletField(t), "Unknown")
            /\ ("zone_splitters" \in DOMAIN result.val.demand_side) <=> (t = "AirLoopHVAC")
            /\ ("connector_lists" \in DOMAIN result.val.demand_side) <=> (t # "AirLoopHVAC")

\* L1 is a key of all three collections and the query returned the topology
\* of the PlantLoop object.
C18_Witness ==
    /\ op = "get_loop_topology"
    /\ arg = "L1"
    /\ Cardinality(KindsHolding(ep, "L1")) = 3
    /\ ~result.raised
    /\ result.val.loop_type = "PlantLoop"
    /\ result.val.supply_side.inlet_node = "PSI"

(***************************************************************************)
(* The sides of a Plant or Condenser loop.                                 *)
(***************************************************************************)
IsPlantTopology ==
    /\ op = "get_loop_topology"
    /\ ~result.raised
    /\ result.val.loop_type \in {"PlantLoop", "CondenserLoop"}

\* The prefix of the supply-side fields of a loop of kind t.
SupplyPrefix(t) == IF t = "PlantLoop" THEN "plant_side" ELSE "condenser_side"

\* The side whose fields have the given prefix: its nodes are the values of
\* the inlet and outlet fields ("Unknown" when absent), its branches the
\* branch-list resolution of the list the branch-list field names and its
\* connectors the connector-list resolution of the list the connector-list
\* field names (none when the field is absent or empty).
SideReadFrom(side, obj, prefix) ==
    LET bl == Get(obj, prefix \o "_branch_list_name", "")
        cl == Get(obj, prefix \o "_connector_list_name", "")
    IN  /\ side.inlet_node = Get(obj, prefix \o "_inlet_node_name", "Unknown")
        /\ side.outlet_node = Get(obj, prefix \o "_outlet_node_name", "Unknown")
        /\ side.branches = IF bl = "" THEN <<>> ELSE get_branches_from_list(ep, PyStr(bl)).val
        /\ side.connector_lists =
               IF cl = "" THEN Some(<<>>) ELSE get_connectors_from_list(ep, cl).val

\* C19: for a PlantLoop (resp. CondenserLoop) the supply side's nodes, branch
\* list and connector list are read from the loop's plant_side_* (resp.
\* condenser_side_*) fields, never from the other kind's, the demand side's
\* from the demand_side_* fields for both kinds, and each side's branches are
\* the branch-list resolution of the named list.
C19_SidesReadByKind ==
    IsPlantTopology =>
        LET obj == Lookup(ep[result.val.loop_type], arg)
        IN  /\ SideReadFrom(result.val.supply_side, obj, SupplyPrefix(result.val.loop_type))
            /\ SideReadFrom(result.val.demand_side, obj, "demand_side")

\* A CondenserLoop whose object also holds plant_side_* fields got its supply
\* inlet from condenser_side_inlet_node_name, and its demand branch list, of
\* one existing branch with one component, gave exactly that branch.
C19_Witness ==
    /\ IsPlantTopology
    /\ result.val.loop_type = "CondenserLoop"
    /\ Has(Lookup(ep["CondenserLoop"], arg), "plant_side_inlet_node_name")
    /\ result.val.supply_side.inlet_node = "CSI"
    /\ result.val.demand_side.branches =
           <<[name |-> "B1",
              components |-> <<[type |-> "Pipe:Adiabatic", name |-> "P1",
                                inlet_node |-> "N1", outlet_node |-> "N2"]>>]>>

\* The model without the object n of collection t.
WithoutObject(e, t, n) ==
    IF t \in DOMAIN e THEN [e EXCEPT ![t] = SelectSeq(@, LAMBDA x : x.name # n)] ELSE e

\* The model whose loop n of kind t has lost its fields of the given prefix.
WithoutSideFields(e, t, n, prefix) ==
    LET lost == {prefix \o "_inlet_node_name", prefix \o "_outlet_node_name",
                 prefix \o "_branch_list_name", prefix \o "_connector_list_name"}
    IN  [e EXCEPT ![t] =
            [i \in 1..Len(@) |->
                IF @[i].name = n
                THEN [@[i] EXCEPT !.attrs = [k \in DOMAIN @ \ lost |-> @[k]]]
                ELSE @[i]]]

\* Models that differ from e only in the fields of loop n with prefix `own`
\* and in the lists that only those fields name (`other` is the prefix of the
\* opposite side).
SideVariants(e, t, n, own, other) ==
    LET obj == Lookup(e[t], n)
        bl == Get(obj, own \o "_branch_list_name", "")
        cl == Get(obj, own \o "_connector_list_name", "")
    IN  {WithoutSideFields(e, t, n, own)}
        \cup (IF bl # Get(obj, other \o "_branch_list_name", "")
              THEN {WithoutObject(e, "BranchList", bl)} ELSE {})
        \cup (IF cl # Get(obj, other \o "_connector_list_name", "")
              THEN {WithoutObject(e, "ConnectorList", cl)} ELSE {})

\* Every query on a variant that ends as this one (both return a topology)
\* agrees with it on `side`; with Strict, it must also end as this one.
AgreesOnSide(variants, side, Strict) ==
    \A m \in variants :
        LET other == get_loop_topology(m, arg)
        IN  /\ Strict => (result.raised <=> other.raised)
            /\ (~result.raised /\ ~other.raised) => result.val[side] = other.val[side]

SidesIndependent(Strict) ==
    (op = "get_loop_topology" /\ KindsHolding(ep, arg) # {}) =>
        LET t == FirstKind(ep, arg)
        IN  t # "AirLoopHVAC" =>
                /\ AgreesOnSide(SideVariants(ep, t, arg, SupplyPrefix(t), "demand_side"),
                                "demand_side", Strict)
                /\ AgreesOnSide(SideVariants(ep, t, arg, "demand_side", SupplyPrefix(t)),
                                "supply_side", Strict)

\* C20 as claimed: for two models that differ only in the supply-side fields
\* of a Plant or Condenser loop and in objects referenced only from its
\* supply side, get_loop_topology returns the same demand_side value (both
\* queries return a topology, and the demand sides are equal), and
\* symmetrically for the supply side when only demand-side data differs.
C20_SidesIndependent == SidesIndependent(TRUE)

\* The part of C20 the code does satisfy: when the queries on both models
\* return a topology, the side whose data is the same in both is the same.
C20_SidesIndependentWhenReturned == SidesIndependent(FALSE)

(***************************************************************************)
(* The records of splitters and mixers.                                    *)
(***************************************************************************)
\* The object has its single-branch field and a branches field whose every
\* record holds the per-record field.
ConnectorWellFormed(obj, single_field, record_field) ==
    /\ Has(obj, single_field)
    /\ Has(obj, "branches")
    /\ \A j \in 1..Len(obj["branches"]) : Has(obj["branches"][j], record_field)

\* The values of `field` of the branch records of obj, in order.
RecordValues(obj, field) == [j \in 1..Len(obj["branches"]) |-> obj["branches"][j][field]]

\* C21: in the sequence _get_connectors_from_list returns, the record of an
\* entry whose type ends case-insensitively in 'splitter' has inlet_branch
\* equal to the inlet_branch_name of the referenced Connector:Splitter object
\* and outlet_branches equal, in order, to the outlet_branch_name of each of
\* that object's branch records; the record of an entry ending in 'mixer' has
\* inlet_branches equal, in order, to the inlet_branch_name of each branch
\* record of the referenced Connector:Mixer object and outlet_branch equal to
\* its outlet_branch_name; name and type are those the ConnectorList declares.
C21_ConnectorRecordsReadFromObjects ==
    (op = "get_connectors_from_list" /\ ~result.raised /\ ~result.val.none) =>
        LET data == Lookup(Coll(ep, "ConnectorList"), arg)
        IN  \A i \in 1..Len(result.val.v) :
                LET n == data[ConnectorNameKey(i)]
                    t == data[ConnectorTypeKey(i)]
                    r == result.val.v[i]
                IN  /\ (EndsInSplitter(t) /\ InColl(Coll(ep, "Connector:Splitter"), n)) =>
                        LET obj == Lookup(Coll(ep, "Connector:Splitter"), n)
                        IN  ConnectorWellFormed(obj, "inlet_branch_name", "outlet_branch_name") =>
                                r = [name |-> n, type |-> t,
                                     inlet_branch |-> obj["inlet_branch_name"],
                                     outlet_branches |-> RecordValues(obj, "outlet_branch_name")]
                    /\ (EndsInMixer(t) /\ InColl(Coll(ep, "Connector:Mixer"), n)) =>
                        LET obj == Lookup(Coll(ep, "Connector:Mixer"), n)
                        IN  ConnectorWellFormed(obj, "outlet_branch_name", "inlet_branch_name") =>
                                r = [name |-> n, type |-> t,
                                     inlet_branches |-> RecordValues(obj, "inlet_branch_name"),
                                     outlet_branch |-> obj["outlet_branch_name"]]

\* The list CL declares the splitter S1 with an upper-case type and the mixer
\* M1; S1 has the outlet branches B3 and B2, M1 the inlet branches B3 and B2,
\* and both records hold them in that order.
C21_Witness ==
    /\ op = "get_connectors_from_list"
    /\ arg = "CL"
    /\ ~result.raised
    /\ ~result.val.none
    /\ Len(result.val.v) = 2
    /\ result.val.v[1].type = TypeSplitterUpper
    /\ result.val.v[1].inlet_branch = "B1"
    /\ result.val.v[1].outlet_branches = <<"B3", "B2">>
    /\ IsMixerRecord(result.val.v[2])
    /\ result.val.v[2].inlet_branches = <<"B3", "B2">>
    /\ result.val.v[2].outlet_branch = "B4"

(***************************************************************************)
(* The alias of index 1.                                                   *)
(***************************************************************************)
\* The value of index 1 of pattern p: the numbered field when non-empty,
\* otherwise the unnumbered alias.
FirstValue(d, p) ==
    IF Populated(d, NumberedField(p, 1)) THEN d[NumberedField(p, 1)] ELSE d[AltField(p)]
FirstPopulated(d, p) == Populated(d, NumberedField(p, 1)) \/ Populated(d, AltField(p))

\* C22: in both numbered-field scans the entry of index 1 is read from the
\* explicitly numbered field when that field is non-empty and otherwise from
\* the unnumbered alias; the entries of index 2 and above are read only from
\* their numbered field, and the alias never stands in for them: the scan has
\* an entry of index i >= 2 only if the numbered field of index i is non-empty.
C22_AliasOnlyForIndexOne ==
    /\ op = "iter_numbered_nodes" =>
        /\ (Len(result.val) >= 1) <=> FirstPopulated(obj_data, arg)
        /\ Len(result.val) >= 1 => result.val[1] = FirstValue(obj_data, arg)
        /\ \A i \in 2..Len(result.val) :
            /\ Populated(obj_data, NumberedField(arg, i))
            /\ result.val[i] = obj_data[NumberedField(arg, i)]
    /\ op = "iter_numbered_components" =>
        /\ (Len(result.val) >= 1) <=>
               (FirstPopulated(obj_data, ComponentNamePattern)
                /\ FirstPopulated(obj_data, ComponentTypePattern))
        /\ Len(result.val) >= 1 =>
               result.val[1] = [name |-> FirstValue(obj_data, ComponentNamePattern),
                                type |-> FirstValue(obj_data, ComponentTypePattern)]
        /\ \A i \in 2..Len(result.val) :
            /\ Populated(obj_data, NumberedField(ComponentNamePattern, i))
            /\ Populated(obj_data, NumberedField(ComponentTypePattern, i))
            /\ result.val[i] = [name |-> obj_data[NumberedField(ComponentNamePattern, i)],
                                type |-> obj_data[NumberedField(ComponentTypePattern, i)]]

\* A node scan over a map whose field of index 1 is empty, whose alias is
\* populated, whose field of index 2 is populated and whose field of index 3
\* is not returned the alias value and the value of index 2, and stopped there.
C22_Witness ==
    /\ op = "iter_numbered_nodes"
    /\ Has(obj_data, NumberedField(arg, 1))
    /\ obj_data[NumberedField(arg, 1)] = ""
    /\ Populated(obj_data, AltField(arg))
    /\ Populated(obj_data, NumberedField(arg, 2))
    /\ ~Populated(obj_data, NumberedField(arg, 3))
    /\ result.val = <<obj_data[AltField(arg)], obj_data[NumberedField(arg, 2)]>>

(***************************************************************************)
(* The priority of the inlet-node aliases.                                 *)
(***************************************************************************)
AliasPriority ==
    <<"air_inlet_node_name", "air_inlet_node", "supply_air_inlet_node_name",
      "zone_supply_air_node_name">>

PopulatedAliases(obj) == {k \in 1..Len(AliasPriority) : Populated(obj, AliasPriority[k])}

\* The value of the first non-empty alias of obj, in priority order.
FirstAlias(obj) ==
    obj[AliasPriority[CHOOSE k \in PopulatedAliases(obj) :
                          \A j \in PopulatedAliases(obj) : k <= j]]

\* The first non-empty alias of obj exists and equals node.
FirstAliasIs(obj, node) == PopulatedAliases(obj) # {} /\ FirstAlias(obj) = node

\* The records of `equipment` for object n of type t.
RecordsOf(equipment, t, n) ==
    {k \in 1..Len(equipment) : equipment[k].type = t /\ equipment[k].name = n}

\* C23: zone-equipment matching tests the aliases in the order
\* air_inlet_node_name, air_inlet_node, supply_air_inlet_node_name,
\* zone_supply_air_node_name and compares only the first non-empty one with
\* the (non-empty) target node: an object of the catalogue is appended, once
\* and with that alias value as inlet_node, exactly when its first non-empty
\* alias equals the node, hence not when that alias differs from the node and
\* a lower-priority alias equals it.
C23_FirstNonEmptyAliasDecides ==
    op = "get_zone_equipment_for_node" =>
        \A t \in 1..Len(air_terminal_types) :
            \A x \in 1..Len(Coll(ep, air_terminal_types[t])) :
                LET obj == Coll(ep, air_terminal_types[t])[x]
                    recs == RecordsOf(result.val, air_terminal_types[t], obj.name)
                IN  IF FirstAliasIs(obj.attrs, arg)
                    THEN /\ Cardinality(recs) = 1
                         /\ \A k \in recs : result.val[k].inlet_node = FirstAlias(obj.attrs)
                    ELSE recs = {}

\* Node "N3" was queried; the terminal T1, whose first non-empty alias
\* (air_inlet_node, air_inlet_node_name being empty) is "N2" and whose
\* lower-priority zone_supply_air_node_name is "N3", was not appended, and T2,
\* whose only alias is "N3", was.
C23_Witness ==
    /\ op = "get_zone_equipment_for_node"
    /\ arg = "N3"
    /\ LET t1 == Lookup(Coll(ep, "AirTerminal:SingleDuct:VAV:Reheat"), "T1")
       IN  /\ Has(t1, "air_inlet_node_name") /\ t1["air_inlet_node_name"] = ""
           /\ Has(t1, "air_inlet_node") /\ t1["air_inlet_node"] = "N2"
           /\ Has(t1, "zone_supply_air_node_name") /\ t1["zone_supply_air_node_name"] = "N3"
    /\ RecordNames(result.val) = <<"T2">>
    /\ result.val[1].inlet_node = "N3"

(***************************************************************************)
(* Zone mixers and return plenums of an air loop.                          *)
(***************************************************************************)
ZoneMixerType == "AirLoopHVAC:ZoneMixer"
ReturnPlenumType == "AirLoopHVAC:ReturnPlenum"

\* The components of the paths that have the given type and name an object of
\* that type's collection, in path order then component order.
ExistingRefs(e, paths, type) ==
    Flatten([p \in 1..Len(paths) |->
        SelectSeq(paths[p].components,
            LAMBDA c : c.type = type /\ InColl(Coll(e, type), c.name))])

ZoneMixerRecord(e, n) ==
    LET obj == Lookup(Coll(e, ZoneMixerType), n)
    IN  [name |-> n,
         type |-> ZoneMixerType,
         outlet_node |-> Get(obj, "outlet_node_name", "Unknown"),
         inlet_nodes |-> ScannedNodes(obj, InletNodePattern)]

ReturnPlenumRecord(e, n) ==
    LET obj == Lookup(Coll(e, ReturnPlenumType), n)
    IN  [name |-> n,
         type |-> ReturnPlenumType,
         zone_name |-> Get(obj, "zone_name", "Unknown"),
         zone_node_name |-> Get(obj, "zone_node_name", "Unknown"),
         outlet_node |-> Get(obj, "outlet_node_name", "Unknown"),
         induced_air_outlet_node |-> Get(obj, "induced_air_outlet_node_or_nodelist_name", ""),
         inlet_nodes |-> ScannedNodes(obj, InletNodePattern)]

\* C24: in an air-loop topology every component of a selected ReturnPath of
\* type AirLoopHVAC:ZoneMixer whose object exists yields one zone_mixers
\* record (inlet nodes from the node scan over inlet_{i}_node_name, a single
\* outlet node), every component of type AirLoopHVAC:ReturnPlenum whose
\* object exists yields one return_plenums record that carries zone_name,
\* zone_node_name and induced_air_outlet_node besides, in path order then
\* component order; a component of another type, or naming a missing object,
\* yields no record, and no component yields a record in both lists.
C24_MixersAndPlenumsExpanded ==
    IsAirTopology =>
        LET ds == result.val.demand_side
            all == Flatten([p \in 1..Len(ds.return_paths) |-> ds.return_paths[p].components])
            mixers == ExistingRefs(ep, ds.return_paths, ZoneMixerType)
            plenums == ExistingRefs(ep, ds.return_paths, ReturnPlenumType)
        IN  /\ ds.zone_mixers = [k \in 1..Len(mixers) |-> ZoneMixerRecord(ep, mixers[k].name)]
            /\ ds.return_plenums =
                   [k \in 1..Len(plenums) |-> ReturnPlenumRecord(ep, plenums[k].name)]
            /\ Len(ds.zone_mixers) + Len(ds.return_plenums) <= Len(all)

\* The return path RP1 names X1 as a zone mixer, then X1 as a return plenum;
\* both objects exist, and the topology holds the mixer X1 among its zone
\* mixers and the plenum X1, with its zone, as its only return plenum.
C24_Witness ==
    /\ IsAirTopology
    /\ Len(result.val.demand_side.return_paths) = 2
    /\ result.val.demand_side.return_paths[1].components =
           <<[name |-> "X1", type |-> ZoneMixerType], [name |-> "X1", type |-> ReturnPlenumType]>>
    /\ RecordNames(result.val.demand_side.zone_mixers) = <<"X1", "ZM1">>
    /\ result.val.demand_side.zone_mixers[1].inlet_nodes = <<"N9">>
    /\ RecordNames(result.val.demand_side.return_plenums) = <<"X1">>
    /\ result.val.demand_side.return_plenums[1].zone_name = "Attic"
    /\ result.val.demand_side.return_plenums[1].induced_air_outlet_node = "IA"

C26_NotFoundRecognisedByHandler ==
    (op = "tool_get_loop_topology" /\ ~IsLoopKey(ep, arg)) =>
        result.val = "Loop not found"

\* The error that leaves get_loop_topology for such a name is never one the
\* handler's `except ValueError` clause matches, whether the manager is
\* handed the loaded model or the path of its file.
C26_NotFoundLeavesAsRuntimeError ==
    (op = "tool_get_loop_topology" /\ ~IsLoopKey(ep, arg)) =>
        /\ get_loop_topology(ep, arg).raised
        /\ get_loop_topology(ep, arg).exc = "RuntimeError"
        /\ manager_get_loop_topology(PyPathTo(ep), arg).exc = "RuntimeError"
        /\ manager_get_loop_topology(PyData(ep), arg).exc = "AttributeError"
        /\ result.val = "Error getting loop topology for"

(***************************************************************************)
(* The connector sequences of a Plant or Condenser topology.               *)
(***************************************************************************)
\* The value is a sequence of connector records (possibly empty), not None.
IsConnectorSequence(v) ==
    /\ ~v.none
    /\ \A k \in 1..Len(v.v) : IsSplitterRecord(v.v[k]) \/ IsMixerRecord(v.v[k])

\* C27 as claimed: in every Plant/Condenser topology returned,
\* supply_side.connector_lists and demand_side.connector_lists are each a
\* sequence of connector records (possibly empty), including when the loop
\* names no connector list, names a connector list that does not exist, or
\* names one with an odd key count.
C27_ConnectorListsAreSequences ==
    IsPlantTopology =>
        /\ IsConnectorSequence(result.val.supply_side.connector_lists)
        /\ IsConnectorSequence(result.val.demand_side.connector_lists)

\* The part of C27 the code does satisfy: a side is a sequence of connector
\* records unless the loop names, for that side, a connector list that does
\* not exist or one with an odd key count; it is the empty sequence when the
\* loop names no list for the side.
C27_SequenceUnlessListUnresolved ==
    IsPlantTopology =>
        LET obj == Lookup(ep[result.val.loop_type], arg)
            Side(value, field) ==
                LET cl == Get(obj, field, "")
                IN  IF cl = "" THEN value = Some(<<>>)
                    ELSE IF ~InColl(Coll(ep, "ConnectorList"), cl) \/ IsOddList(ep, cl)
                    THEN value.none
                    ELSE IsConnectorSequence(value)
        IN  /\ Side(result.val.supply_side.connector_lists,
                    SupplyConnectorListField(result.val.loop_type))
            /\ Side(result.val.demand_side.connector_lists, "demand_side_connector_list_name")

(***************************************************************************)
(* How often an object appears among the zone equipment.                   *)
(***************************************************************************)
\* The <<record, position>> pairs of the outlet nodes of the zone-splitter
\* records that equal node.
OutletOccurrences(splitters, node) ==
    {<<k, o>> \in (1..Len(splitters)) \X (1..(max_count)) :
        o <= Len(splitters[k].outlet_nodes) /\ splitters[k].outlet_nodes[o] = node}

\* Every object of the zone-equipment catalogue has Count(matches) records
\* in zone_equipment, matches being the occurrences of its first non-empty
\* inlet alias among the outlet nodes of the zone-splitter records.
EquipmentCounted(Counts(_, _)) ==
    LET ds == result.val.demand_side
    IN  \A t \in 1..Len(air_terminal_types) :
            \A x \in 1..Len(Coll(ep, air_terminal_types[t])) :
                LET obj == Coll(ep, air_terminal_types[t])[x]
                    recs == RecordsOf(ds.zone_equipment, air_terminal_types[t], obj.name)
                    matches == IF PopulatedAliases(obj.attrs) = {} THEN {}
                               ELSE OutletOccurrences(ds.zone_splitters, FirstAlias(obj.attrs))
                IN  Counts(Cardinality(recs), Cardinality(matches))

\* C28 as claimed: in every air-loop topology returned, each zone-equipment
\* object (identified by its type and name) appears at most once in
\* demand_side.zone_equipment, including when the same node is an outlet of
\* several zone splitters, is listed twice among one splitter's outlets, or
\* when the same zone splitter is a component of several selected supply
\* paths.
C28_EquipmentAtMostOnce ==
    IsAirTopology => EquipmentCounted(LAMBDA records, matches : records <= 1)

\* C28 as amended: each zone-equipment object appears in
\* demand_side.zone_equipment once for every occurrence of its matched inlet
\* node among the outlet nodes of the zone_splitters records: not at all
\* when the node is no outlet, once when it occurs once, and several times
\* when it occurs several times.
C28_EquipmentOncePerOutletOccurrence ==
    IsAirTopology => EquipmentCounted(LAMBDA records, matches : records = matches)

\* The splitter ZS1 lists the node "N2" as its first and its third outlet and
\* "N3" as its second; the terminal T1, whose inlet is "N2", appears twice
\* among the zone equipment and T2, whose inlet is "N3", once.
C28_Witness ==
    /\ IsAirTopology
    /\ Len(result.val.demand_side.zone_splitters) = 1
    /\ result.val.demand_side.zone_splitters[1].outlet_nodes = <<"N2", "N3", "N2">>
    /\ RecordNames(result.val.demand_side.zone_equipment) = <<"T1", "T2", "T1">>

(***************************************************************************)
(* The links inside an air-loop topology.                                  *)
(***************************************************************************)
\* C29: every air-loop topology returned is internally linked: each
\* zone_equipment record's inlet_node is an element of outlet_nodes of some
\* record of zone_splitters; each zone_splitters record's name is the name
\* of an AirLoopHVAC:ZoneSplitter component of some record of
\* demand_side.supply_paths; each supply_paths record's inlet_node equals
\* demand_side.inlet_node and each return_paths record's outlet_node equals
\* demand_side.outlet_node.
C29_AirTopologyLinked ==
    IsAirTopology =>
        LET ds == result.val.demand_side
        IN  /\ \A q \in 1..Len(ds.zone_equipment) :
                   \E k \in 1..Len(ds.zone_splitters) :
                       \E o \in 1..Len(ds.zone_splitters[k].outlet_nodes) :
                           ds.zone_splitters[k].outlet_nodes[o] = ds.zone_equipment[q].inlet_node
            /\ \A k \in 1..Len(ds.zone_splitters) :
                   \E p \in 1..Len(ds.supply_paths) :
                       \E c \in 1..Len(ds.supply_paths[p].components) :
                           /\ ds.supply_paths[p].components[c].type = ZoneSplitterType
                           /\ ds.supply_paths[p].components[c].name = ds.zone_splitters[k].name
            /\ \A p \in 1..Len(ds.supply_paths) : ds.supply_paths[p].inlet_node = ds.inlet_node
            /\ \A p \in 1..Len(ds.return_paths) : ds.return_paths[p].outlet_node = ds.outlet_node

\* An air-loop topology with two selected supply paths, a selected return
\* path, two zone-splitter records and zone equipment was returned.
C29_Witness ==
    /\ IsAirTopology
    /\ Len(result.val.demand_side.supply_paths) = 2
    /\ Len(result.val.demand_side.return_paths) = 1
    /\ Len(result.val.demand_side.zone_splitters) = 2
    /\ Len(result.val.demand_side.zone_equipment) >= 2

(***************************************************************************)
(* Discovery and topology.                                                 *)
(***************************************************************************)
\* The four key nodes of a discovery entry of the given kind, as
\* <<supply inlet, supply outlet, demand inlet, demand outlet>>.
EntryNodes(kind, entry) ==
    IF kind = "AirLoopHVAC"
    THEN <<entry.supply_inlet_node, entry.supply_outlet_node,
           entry.demand_inlet_node, entry.demand_outlet_node>>
    ELSE <<entry.loop_inlet_node, entry.loop_outlet_node,
           entry.demand_inlet_node, entry.demand_outlet_node>>

TopologyNodes(topology) ==
    <<topology.supply_side.inlet_node, topology.supply_side.outlet_node,
      topology.demand_side.inlet_node, topology.demand_side.outlet_node>>

\* The list of discover_hvac_loops for a kind.
DiscoveredList(e, kind) ==
    IF kind = "PlantLoop" THEN discover_hvac_loops(e).val.plant_loops
    ELSE IF kind = "CondenserLoop" THEN discover_hvac_loops(e).val.condenser_loops
    ELSE discover_hvac_loops(e).val.air_loops

\* The entries that discovery lists under the queried name.
ListedAs(e, n) ==
    {<<kind, i>> \in LoopCollections \X (1..2) :
        i <= Len(DiscoveredList(e, kind)) /\ DiscoveredList(e, kind)[i].name = n}

\* C30 as claimed: discovery and topology agree on a loop's key nodes: for
\* every loop that discover_hvac_loops lists, get_loop_topology returns a
\* topology for it, and the supply inlet/outlet and demand inlet/outlet node
\* values of the entry equal supply_side.inlet_node/outlet_node and
\* demand_side.inlet_node/outlet_node of the topology, including when the
\* loop object lacks some of these fields and placeholder values are
\* reported.
C30_DiscoveryAgreesWithTopology ==
    op = "get_loop_topology" =>
        \A l \in ListedAs(ep, arg) :
            /\ ~result.raised
            /\ EntryNodes(l[1], DiscoveredList(ep, l[1])[l[2]]) = TopologyNodes(result.val)

\* The part of C30 the code does satisfy: the entry and the topology agree
\* for a loop that is a key of one collection only and whose object holds
\* all four node fields of its kind.
C30_AgreesWhenFieldsPresent ==
    (op = "get_loop_topology" /\ Cardinality(KindsHolding(ep, arg)) = 1) =>
        \A l \in ListedAs(ep, arg) :
            LET obj == Lookup(ep[l[1]], arg)
                demand == IF l[1] = "AirLoopHVAC"
                          THEN {"demand_side_inlet_node_names", "demand_side_outlet_node_names"}
                          ELSE {"demand_side_inlet_node_name", "demand_side_outlet_node_name"}
                supply == IF l[1] = "PlantLoop"
                          THEN {"plant_side_inlet_node_name", "plant_side_outlet_node_name"}
                          ELSE IF l[1] = "CondenserLoop"
                          THEN {"condenser_side_inlet_node_name",
                                "condenser_side_outlet_node_name"}
                          ELSE {"supply_side_inlet_node_name", "supply_side_outlet_node_name"}
            IN  (demand \cup supply \subseteq DOMAIN obj /\ ~result.raised) =>
                    EntryNodes(l[1], DiscoveredList(ep, l[1])[l[2]]) = TopologyNodes(result.val)

\* The placeholder case of C30 alone, which the code does not satisfy
\* either: a PlantLoop that is a key of one collection only, lacks
\* plant_side_inlet_node_name and gets a topology has the same supply inlet
\* placeholder in its discovery entry.
C30_PlantPlaceholdersAgree ==
    (op = "get_loop_topology" /\ KindsHolding(ep, arg) = {1} /\ ~result.raised) =>
        \A l \in ListedAs(ep, arg) :
            ~Has(Lookup(ep["PlantLoop"], arg), "plant_side_inlet_node_name") =>
                DiscoveredList(ep, l[1])[l[2]].loop_inlet_node = result.val.supply_side.inlet_node

====
